---- MODULE Spec2Model ----
(***************************************************************************)
(* St. George's Biology Class LMS (Flask + SQLAlchemy): the relational     *)
(* store and the request handlers of src/app.py that write to it.  Every   *)
(* table is a set of rows (records); every handler is one action, except   *)
(* request_enrollment and take_quiz, whose check-then-insert sequences     *)
(* are split at the point where another request may run in between.        *)
(***************************************************************************)
EXTENDS Integers, FiniteSets, Sequences, TLC

VARIABLES
    has_paid,          \* users.has_paid of every student
    courses,           \* rows of table courses
    enrollments,       \* rows of table enrollments
    enroll_req,        \* request_enrollment calls between their checks and their insert
    modules,           \* rows of table modules
    topics,            \* rows of table topics
    lessons,           \* rows of table lessons
    quizzes,           \* rows of table quizzes
    quiz_questions,    \* rows of table quiz_questions
    quiz_submissions,  \* rows of table quiz_submissions
    quiz_answers,      \* rows of table quiz_answers
    quiz_req,          \* take_quiz POSTs between their checks and their insert
    essays,            \* rows of table essays
    essay_submissions, \* rows of table essay_submissions
    live_classes,      \* rows of table live_classes
    discussions,       \* rows of table discussions
    replies,           \* rows of table replies
    notifications,     \* rows of table notifications
    library_resources, \* rows of table library_resources
    library_files,     \* names of the files stored under uploads/library
    last               \* the handler step taken last and how it ended

vars == <<has_paid, courses, enrollments, enroll_req, modules, topics, lessons,
          quizzes, quiz_questions, quiz_submissions, quiz_answers, quiz_req,
          essays, essay_submissions, live_classes, discussions, replies,
          notifications, library_resources, library_files, last>>

enrollVars == <<enrollments, enroll_req>>
curriculumVars == <<modules, topics, lessons>>
quizVars == <<quizzes, quiz_questions, quiz_submissions, quiz_answers, quiz_req>>
essayVars == <<essays, essay_submissions>>
forumVars == <<live_classes, discussions, replies>>
notifVars == <<notifications>>
libraryVars == <<library_resources, library_files>>

\* everything the database and the library folder hold
stored ==
    <<has_paid, courses, enrollments, modules, topics, lessons, quizzes,
      quiz_questions, quiz_submissions, quiz_answers, essays, essay_submissions,
      live_classes, discussions, replies, notifications, library_resources,
      library_files>>

-----------------------------------------------------------------------------
(* Bounds and universes *)

\* datetime.utcnow() is an input: a timestamp among 1..MaxTime
MaxTime == 1
\* questions per create_quiz form
MaxQuestions == 2
\* rows below a course (curriculum, quizzes, essays, live classes, forum)
MaxRows == 4
\* requests between their checks and their insert at one time
MaxInFlight == 2

\* essays created in the essay specification
MaxEssays == 1
\* live classes started in the live class specification
MaxLive == 3
\* notification rows stored before another notification is sent
MaxNotifications == 2
\* discussions and replies stored when every user may post
MaxPosts == 2
\* the highest timestamp an uploaded library file is stored under
MaxUploads == 3
\* rows of content and notifications stored when every teacher route is tried
MaxTeacherRows == 3

\* a NULL DateTime column
NullTime == 0
\* a NULL foreign key / absent row
NULL == "null"

Admins == {"a1"}
Teachers == {"t1", "t2"}
Students == {"s1", "s2"}
Users == Admins \cup Teachers \cup Students
Capacities == {1, 2}
Times == 1..MaxTime

\* User.user_type
user_type(u) ==
    IF u \in Admins THEN "admin" ELSE IF u \in Teachers THEN "teacher" ELSE "student"

is_admin(u) == user_type(u) = "admin"
is_teacher(u) == user_type(u) = "teacher"
is_student(u) == user_type(u) = "student"

\* the decorators of a route: login_required, then the role check
admin_required(u) == is_admin(u)
teacher_required(u) == is_teacher(u)
student_required(u) == is_student(u)

-----------------------------------------------------------------------------
(* Queries *)

Max(S) == CHOOSE x \in S : \A y \in S : y <= x

\* the id of the next row of a table (INTEGER PRIMARY KEY: max(rowid) + 1)
NextId(table) == IF table = {} THEN 1 ELSE Max({r.id : r \in table}) + 1

\* Model.query.get(id), NULL when there is no such row
Get(table, id) ==
    IF \E r \in table : r.id = id THEN CHOOSE r \in table : r.id = id ELSE NULL

Exists(table, id) == \E r \in table : r.id = id

\* Course.enrolled_count
enrolled_count(cid) ==
    Cardinality({e \in enrollments : e.course_id = cid /\ e.status = "approved"})

\* Course.is_full
is_full_strict(c) == enrolled_count(c.id) > c.max_students
is_full_never(c) == FALSE
is_full(c) == enrolled_count(c.id) >= c.max_students

\* User.can_access_course
can_access_course_any_role(u, cid) ==
    \/ \E c \in courses : c.id = cid /\ (c.teacher_id = u \/ is_admin(u))
    \/ \E e \in enrollments :
          e.student_id = u /\ e.course_id = cid /\ e.status = "approved"
can_access_course_any_status(u, cid) ==
    IF is_teacher(u)
    THEN \E c \in courses : c.id = cid /\ c.teacher_id = u
    ELSE \E e \in enrollments : e.student_id = u /\ e.course_id = cid
can_access_course(u, cid) ==
    IF is_teacher(u)
    THEN \E c \in courses : c.id = cid /\ c.teacher_id = u
    ELSE IF is_student(u)
    THEN \E e \in enrollments :
            e.student_id = u /\ e.course_id = cid /\ e.status = "approved"
    ELSE FALSE

\* the handler step just taken: the route, current_user, and the flash(...)
\* message it ended with ("checked": the checks passed, the insert is to come)
Done(op, u, outcome) == last' = [op |-> op, user |-> u, outcome |-> outcome]

-----------------------------------------------------------------------------
(* Initial state: the tables after db.create_all(), the users registered *)

Init ==
    /\ has_paid = [s \in Students |-> FALSE]
    /\ courses = {}
    /\ enrollments = {}
    /\ enroll_req = {}
    /\ modules = {}
    /\ topics = {}
    /\ lessons = {}
    /\ quizzes = {}
    /\ quiz_questions = {}
    /\ quiz_submissions = {}
    /\ quiz_answers = {}
    /\ quiz_req = {}
    /\ essays = {}
    /\ essay_submissions = {}
    /\ live_classes = {}
    /\ discussions = {}
    /\ replies = {}
    /\ notifications = {}
    /\ library_resources = {}
    /\ library_files = {}
    /\ last = [op |-> "none", user |-> NULL, outcome |-> "none"]

-----------------------------------------------------------------------------
(* Courses (admin) *)

\* create_course: POST /admin/courses/create
CreateCourse(u, form_ok, ms, tid) ==
    /\ UNCHANGED <<notifVars, libraryVars>>
    /\ UNCHANGED <<has_paid, enrollVars, curriculumVars, quizVars, essayVars, forumVars>>
    /\ IF ~admin_required(u)
       THEN /\ Done("create_course", u, "denied")
            /\ UNCHANGED courses
       ELSE IF ~form_ok \/ tid = NULL \/ tid \notin Teachers
       THEN /\ Done("create_course", u, "invalid")
            /\ UNCHANGED courses
       ELSE /\ courses' = courses \cup
                 {[id |-> NextId(courses), max_students |-> ms, teacher_id |-> tid]}
            /\ Done("create_course", u, "ok")

\* edit_course: POST /admin/courses/<course_id>/edit
EditCourse(u, cid, form_ok, ms, tid) ==
    /\ UNCHANGED <<notifVars, libraryVars>>
    /\ UNCHANGED <<has_paid, enrollVars, curriculumVars, quizVars, essayVars, forumVars>>
    /\ IF ~admin_required(u)
       THEN /\ Done("edit_course", u, "denied")
            /\ UNCHANGED courses
       ELSE IF ~Exists(courses, cid)
       THEN /\ Done("edit_course", u, "not_found")
            /\ UNCHANGED courses
       ELSE IF ~form_ok \/ (tid # NULL /\ tid \notin Teachers)
       THEN /\ Done("edit_course", u, "invalid")
            /\ UNCHANGED courses
       ELSE /\ courses' = (courses \ {Get(courses, cid)}) \cup
                 {[id |-> cid, max_students |-> ms, teacher_id |-> tid]}
            /\ Done("edit_course", u, "ok")

-----------------------------------------------------------------------------
(* Payment and enrollment *)

\* make_payment: /student/payment
MakePayment(u, method, form_ok) ==
    /\ UNCHANGED <<notifVars, libraryVars>>
    /\ UNCHANGED <<courses, enrollVars, curriculumVars, quizVars, essayVars, forumVars>>
    /\ IF ~student_required(u)
       THEN /\ Done("make_payment", u, "denied")
            /\ UNCHANGED has_paid
       ELSE IF has_paid[u]
       THEN /\ Done("make_payment", u, "already_paid")
            /\ UNCHANGED has_paid
       ELSE IF method = "GET"
       THEN /\ Done("make_payment", u, "form")
            /\ UNCHANGED has_paid
       ELSE IF ~form_ok
       THEN /\ Done("make_payment", u, "invalid")
            /\ UNCHANGED has_paid
       ELSE /\ has_paid' = [has_paid EXCEPT ![u] = TRUE]
            /\ Done("make_payment", u, "ok")

\* request_enrollment's payment check: `if not current_user.has_paid`
NotPaidAlways(u) == FALSE
NotPaid(u) == ~has_paid[u]

\* the requests of student s for course cid that are between check and insert
InFlight(s, cid) == {r \in enroll_req : r.student_id = s /\ r.course_id = cid}

\* request_enrollment: the lookup of the student's row for the course,
\* whatever its status
existing_enrollment_unless_declined(u, cid) ==
    \E e \in enrollments :
        e.student_id = u /\ e.course_id = cid /\ e.status # "declined"
existing_enrollment(u, cid) ==
    \E e \in enrollments : e.student_id = u /\ e.course_id = cid

\* request_enrollment, up to the insert: the decorators, the payment check,
\* the existing-row lookup and the capacity check
RequestEnrollmentCheck(u, cid) ==
    /\ UNCHANGED <<notifVars, libraryVars>>
    /\ UNCHANGED <<has_paid, courses, enrollments, curriculumVars, quizVars,
                   essayVars, forumVars>>
    /\ IF ~student_required(u)
       THEN /\ Done("request_enrollment", u, "denied")
            /\ UNCHANGED enroll_req
       ELSE IF ~Exists(courses, cid)
       THEN /\ Done("request_enrollment", u, "not_found")
            /\ UNCHANGED enroll_req
       ELSE IF NotPaid(u)
       THEN /\ Done("request_enrollment", u, "unpaid")
            /\ UNCHANGED enroll_req
       ELSE IF existing_enrollment(u, cid)
       THEN /\ Done("request_enrollment", u, "existing")
            /\ UNCHANGED enroll_req
       ELSE IF is_full(Get(courses, cid))
       THEN /\ Done("request_enrollment", u, "full")
            /\ UNCHANGED enroll_req
       ELSE /\ enroll_req' = enroll_req \cup
                 {[student_id |-> u, course_id |-> cid,
                   n |-> Cardinality(InFlight(u, cid)) + 1]}
            /\ Done("request_enrollment", u, "checked")

\* UniqueConstraint('student_id', 'course_id', name='unique_enrollment')
unique_enrollment_missing(s, cid) == TRUE
unique_enrollment(s, cid) ==
    ~ \E e \in enrollments : e.student_id = s /\ e.course_id = cid

\* request_enrollment, the insert and its commit: an IntegrityError of the
\* unique constraint is caught and the transaction rolled back
RequestEnrollmentCommit(r) ==
    /\ r \in enroll_req
    /\ r.n = Cardinality(InFlight(r.student_id, r.course_id))
    /\ enroll_req' = enroll_req \ {r}
    /\ UNCHANGED <<notifVars, libraryVars>>
    /\ UNCHANGED <<has_paid, courses, curriculumVars, quizVars, essayVars, forumVars>>
    /\ IF ~unique_enrollment(r.student_id, r.course_id)
       THEN /\ UNCHANGED enrollments
            /\ Done("request_enrollment", r.student_id, "error")
       ELSE /\ enrollments' = enrollments \cup
                 {[id |-> NextId(enrollments), student_id |-> r.student_id,
                   course_id |-> r.course_id, status |-> "pending",
                   responded_at |-> NullTime]}
            /\ Done("request_enrollment", r.student_id, "ok")

\* the ownership check of the teacher routes:
\* `if enrollment.course.teacher_id != current_user.id`
NotOwnerNever(u, c) == FALSE
NotOwner(u, c) == c.teacher_id # u

\* enrollment.status = ...; enrollment.responded_at = datetime.utcnow()
RespondMovingRow(e, status, now) ==
    [e EXCEPT !.status = status, !.responded_at = now, !.course_id = e.course_id + 1]
Respond(e, status, now) == [e EXCEPT !.status = status, !.responded_at = now]

\* the body shared by approve_enrollment and decline_enrollment (teacher routes)
TeacherRespond(op, u, eid, status, now) ==
    /\ UNCHANGED <<notifVars, libraryVars>>
    /\ UNCHANGED <<has_paid, courses, enroll_req, curriculumVars, quizVars,
                   essayVars, forumVars>>
    /\ IF ~teacher_required(u)
       THEN /\ Done(op, u, "denied")
            /\ UNCHANGED enrollments
       ELSE IF ~Exists(enrollments, eid)
       THEN /\ Done(op, u, "not_found")
            /\ UNCHANGED enrollments
       ELSE LET e == Get(enrollments, eid) IN
            IF NotOwner(u, Get(courses, e.course_id))
            THEN /\ Done(op, u, "not_owner")
                 /\ UNCHANGED enrollments
            ELSE /\ enrollments' = (enrollments \ {e}) \cup {Respond(e, status, now)}
                 /\ Done(op, u, "ok")

\* approve_enrollment: POST /teacher/enrollments/<enrollment_id>/approve
ApproveEnrollment(u, eid, now) ==
    TeacherRespond("approve_enrollment", u, eid, "approved", now)

\* decline_enrollment: POST /teacher/enrollments/<enrollment_id>/decline
DeclineEnrollmentReopening(u, eid, now) ==
    TeacherRespond("decline_enrollment", u, eid, "pending", now)
DeclineEnrollment(u, eid, now) ==
    TeacherRespond("decline_enrollment", u, eid, "declined", now)

\* the body shared by admin_approve_enrollment and admin_decline_enrollment
AdminRespond(op, u, eid, status, now) ==
    /\ UNCHANGED <<notifVars, libraryVars>>
    /\ UNCHANGED <<has_paid, courses, enroll_req, curriculumVars, quizVars,
                   essayVars, forumVars>>
    /\ IF ~admin_required(u)
       THEN /\ Done(op, u, "denied")
            /\ UNCHANGED enrollments
       ELSE IF ~Exists(enrollments, eid)
       THEN /\ Done(op, u, "not_found")
            /\ UNCHANGED enrollments
       ELSE LET e == Get(enrollments, eid) IN
            /\ enrollments' = (enrollments \ {e}) \cup {Respond(e, status, now)}
            /\ Done(op, u, "ok")

\* admin_approve_enrollment: POST /admin/enrollments/<enrollment_id>/approve
AdminApproveEnrollmentDeclining(u, eid, now) ==
    AdminRespond("admin_approve_enrollment", u, eid, "declined", now)
AdminApproveEnrollment(u, eid, now) ==
    AdminRespond("admin_approve_enrollment", u, eid, "approved", now)

\* admin_decline_enrollment: POST /admin/enrollments/<enrollment_id>/decline
AdminDeclineEnrollment(u, eid, now) ==
    AdminRespond("admin_decline_enrollment", u, eid, "declined", now)

-----------------------------------------------------------------------------
(* Quizzes *)

\* str.upper() on the option letters
Upper(o) ==
    CASE o = "a" -> "A" [] o = "b" -> "B" [] o = "c" -> "C" [] o = "d" -> "D"
      [] OTHER -> o

\* the indexes of the question forms create_quiz keeps:
\* `if question_text and all([option_a, ...]) and correct_option`
Kept(qs) == {i \in DOMAIN qs : qs[i].complete}

\* the sum of f over the set of indexes I
RECURSIVE SumOf(_, _)
SumOf(f, I) ==
    IF I = {} THEN 0 ELSE LET i == Max(I) IN f[i] + SumOf(f, I \ {i})

\* create_quiz's running total: `total_points += points`, inside the `if`
\* that keeps a question
total_points_of_all(qs) == SumOf([i \in DOMAIN qs |-> qs[i].points], DOMAIN qs)
total_points(qs) == SumOf([i \in Kept(qs) |-> qs[i].points], Kept(qs))

\* create_quiz: /teacher/courses/<course_id>/quizzes/create; qs is the
\* sequence of question forms, each [complete, correct, points]
CreateQuiz(u, cid, method, title_ok, qs) ==
    /\ UNCHANGED <<notifVars, libraryVars>>
    /\ UNCHANGED <<has_paid, courses, enrollVars, curriculumVars, essayVars, forumVars,
                   quiz_submissions, quiz_answers, quiz_req>>
    /\ IF ~teacher_required(u)
       THEN /\ Done("create_quiz", u, "denied")
            /\ UNCHANGED <<quizzes, quiz_questions>>
       ELSE IF ~Exists(courses, cid)
       THEN /\ Done("create_quiz", u, "not_found")
            /\ UNCHANGED <<quizzes, quiz_questions>>
       ELSE IF NotOwner(u, Get(courses, cid))
       THEN /\ Done("create_quiz", u, "not_owner")
            /\ UNCHANGED <<quizzes, quiz_questions>>
       ELSE IF method = "GET"
       THEN /\ Done("create_quiz", u, "form")
            /\ UNCHANGED <<quizzes, quiz_questions>>
       ELSE IF ~title_ok
       THEN /\ Done("create_quiz", u, "invalid")
            /\ UNCHANGED <<quizzes, quiz_questions>>
       ELSE LET qid == NextId(quizzes)
                first == NextId(quiz_questions)
                rank(i) == Cardinality({j \in Kept(qs) : j < i})
            IN /\ quiz_questions' = quiz_questions \cup
                    {[id |-> first + rank(i), quiz_id |-> qid,
                      correct_option |-> Upper(qs[i].correct),
                      points |-> qs[i].points] : i \in Kept(qs)}
               /\ quizzes' = quizzes \cup
                    {[id |-> qid, course_id |-> cid,
                      total_points |-> total_points(qs)]}
               /\ Done("create_quiz", u, "ok")

\* the take_quiz POSTs of student s for quiz qid between check and insert
QuizInFlight(s, qid) == {r \in quiz_req : r.student_id = s /\ r.quiz_id = qid}

\* take_quiz's lookup of an existing submission of the student for the quiz
AlreadySubmittedNever(u, qid) == FALSE
AlreadySubmitted(u, qid) ==
    \E sub \in quiz_submissions : sub.student_id = u /\ sub.quiz_id = qid

\* take_quiz, up to `if request.method == 'POST'`: the decorators, the
\* enrollment check, the existing-submission lookup, quiz.questions.all()
TakeQuizCheck(u, qid, method) ==
    /\ UNCHANGED <<notifVars, libraryVars>>
    /\ UNCHANGED <<has_paid, courses, enrollVars, curriculumVars, essayVars, forumVars,
                   quizzes, quiz_questions, quiz_submissions, quiz_answers>>
    /\ IF ~student_required(u)
       THEN /\ Done("take_quiz", u, "denied")
            /\ UNCHANGED quiz_req
       ELSE IF ~Exists(quizzes, qid)
       THEN /\ Done("take_quiz", u, "not_found")
            /\ UNCHANGED quiz_req
       ELSE IF ~can_access_course(u, Get(quizzes, qid).course_id)
       THEN /\ Done("take_quiz", u, "not_enrolled")
            /\ UNCHANGED quiz_req
       ELSE IF AlreadySubmitted(u, qid)
       THEN /\ Done("take_quiz", u, "already_submitted")
            /\ UNCHANGED quiz_req
       ELSE IF method = "GET"
       THEN /\ Done("take_quiz", u, "form")
            /\ UNCHANGED quiz_req
       ELSE /\ quiz_req' = quiz_req \cup
                 {[student_id |-> u, quiz_id |-> qid,
                   questions |-> {q \in quiz_questions : q.quiz_id = qid},
                   n |-> Cardinality(QuizInFlight(u, qid)) + 1]}
            /\ Done("take_quiz", u, "checked")

\* `question.points if selected_option.upper() == question.correct_option else 0`
points_earned_as_typed(q, selected) ==
    IF selected = q.correct_option THEN q.points ELSE 0
points_earned(q, selected) ==
    IF Upper(selected) = q.correct_option THEN q.points ELSE 0

\* the questions of the form that carry an option: `if selected_option:`
Answered(questions, form) == {q \in questions : form[q.id] # ""}

\* calculate_grade_percentage, in hundredths of a percent (33.33 is 3333):
\* round(score / max_score * 100, 2), ties to the even neighbour
calculate_grade_percentage_truncated(score, max_score) ==
    IF max_score = 0 THEN 0 ELSE (score * 10000) \div max_score
calculate_grade_percentage(score, max_score) ==
    IF max_score = 0 THEN 0
    ELSE LET d == IF max_score < 0 THEN 0 - max_score ELSE max_score
             n == (IF max_score < 0 THEN 0 - score ELSE score) * 10000
             q == n \div d
             twice == 2 * (n % d)
         IN IF twice < d THEN q
            ELSE IF twice > d THEN q + 1
            ELSE IF q % 2 = 0 THEN q ELSE q + 1

\* QuizSubmission carries no UniqueConstraint on (student_id, quiz_id): the
\* flush of a second row for the pair is never refused
submission_conflict_unique(s, qid) ==
    \E sub \in quiz_submissions : sub.student_id = s /\ sub.quiz_id = qid
submission_conflict(s, qid) == FALSE

\* `db.session.rollback()`: what the table holds after the rollback, given
\* what it held before the request and the rows the session had pending
rollback_keeping(before, pending) == before \cup pending
rollback(before, pending) == before

\* take_quiz, the try block: the submission is added and flushed, one answer
\* is added per answered question, the total and graded_at are set, the
\* commit.  form maps each question id to the option sent for it ("" when
\* none).  failed: an exception is raised in the block, after `processed`
\* questions have been through the loop (all of them: the commit raised).
TakeQuizCommit(r, form, now, failed, processed) ==
    /\ r \in quiz_req
    /\ r.n = Cardinality(QuizInFlight(r.student_id, r.quiz_id))
    /\ processed \in 0..Cardinality(r.questions)
    /\ ~failed => processed = Cardinality(r.questions)
    /\ quiz_req' = quiz_req \ {r}
    /\ UNCHANGED <<notifVars, libraryVars>>
    /\ UNCHANGED <<has_paid, courses, enrollVars, curriculumVars, essayVars, forumVars,
                   quizzes, quiz_questions>>
    /\ LET sid == NextId(quiz_submissions)
           first == NextId(quiz_answers)
           seen == {q \in r.questions :
                      Cardinality({p \in r.questions : p.id < q.id}) < processed}
           answered == Answered(seen, form)
           earned == [q \in answered |-> points_earned(q, form[q.id])]
           rank(q) == Cardinality({p \in answered : p.id < q.id})
           byId == [i \in {q.id : q \in answered} |->
                      earned[CHOOSE q \in answered : q.id = i]]
           totalled == processed = Cardinality(r.questions)
           submission ==
               [id |-> sid, student_id |-> r.student_id, quiz_id |-> r.quiz_id,
                total_score |-> IF totalled THEN SumOf(byId, DOMAIN byId) ELSE 0,
                graded |-> TRUE,
                graded_at |-> IF totalled THEN now ELSE NullTime]
           answers ==
               {[id |-> first + rank(q), submission_id |-> sid, question_id |-> q.id,
                 selected_option |-> Upper(form[q.id]),
                 points_earned |-> earned[q]] : q \in answered}
       IN IF failed \/ submission_conflict(r.student_id, r.quiz_id)
          THEN /\ quiz_submissions' = rollback(quiz_submissions, {submission})
               /\ quiz_answers' = rollback(quiz_answers, answers)
               /\ last' = [op |-> "take_quiz", user |-> r.student_id,
                           outcome |-> "error"]
          ELSE /\ quiz_answers' = quiz_answers \cup answers
               /\ quiz_submissions' = quiz_submissions \cup {submission}
               /\ last' = [op |-> "take_quiz", user |-> r.student_id,
                           outcome |-> "ok",
                           percentage |->
                              calculate_grade_percentage(
                                 submission.total_score,
                                 Get(quizzes, r.quiz_id).total_points)]

-----------------------------------------------------------------------------
(* Curriculum: modules, topics, lessons (owning teacher).  Of the title,    *)
(* description and order of a row only whether an edit has rewritten them  *)
(* is kept, in the field title.                                            *)

\* create_module: /teacher/courses/<course_id>/modules/create
CreateModule(u, cid, method, title_ok) ==
    /\ UNCHANGED <<notifVars, libraryVars>>
    /\ UNCHANGED <<has_paid, courses, enrollVars, topics, lessons, quizVars, essayVars,
                   forumVars>>
    /\ IF ~teacher_required(u)
       THEN Done("create_module", u, "denied") /\ UNCHANGED modules
       ELSE IF ~Exists(courses, cid)
       THEN Done("create_module", u, "not_found") /\ UNCHANGED modules
       ELSE IF NotOwner(u, Get(courses, cid))
       THEN Done("create_module", u, "not_owner") /\ UNCHANGED modules
       ELSE IF method = "GET"
       THEN Done("create_module", u, "form") /\ UNCHANGED modules
       ELSE IF ~title_ok
       THEN Done("create_module", u, "invalid") /\ UNCHANGED modules
       ELSE /\ modules' = modules \cup {[id |-> NextId(modules), course_id |-> cid,
                                      title |-> "created"]}
            /\ Done("create_module", u, "ok")

\* create_topic: /teacher/modules/<module_id>/topics/create
CreateTopic(u, mid, method, title_ok) ==
    /\ UNCHANGED <<notifVars, libraryVars>>
    /\ UNCHANGED <<has_paid, courses, enrollVars, modules, lessons, quizVars, essayVars,
                   forumVars>>
    /\ IF ~teacher_required(u)
       THEN Done("create_topic", u, "denied") /\ UNCHANGED topics
       ELSE IF ~Exists(modules, mid)
       THEN Done("create_topic", u, "not_found") /\ UNCHANGED topics
       ELSE IF NotOwner(u, Get(courses, Get(modules, mid).course_id))
       THEN Done("create_topic", u, "not_owner") /\ UNCHANGED topics
       ELSE IF method = "GET"
       THEN Done("create_topic", u, "form") /\ UNCHANGED topics
       ELSE IF ~title_ok
       THEN Done("create_topic", u, "invalid") /\ UNCHANGED topics
       ELSE /\ topics' = topics \cup {[id |-> NextId(topics), module_id |-> mid,
                                      title |-> "created"]}
            /\ Done("create_topic", u, "ok")

\* create_lesson: /teacher/topics/<topic_id>/lessons/create
CreateLesson(u, tid, method, title_ok) ==
    /\ UNCHANGED <<notifVars, libraryVars>>
    /\ UNCHANGED <<has_paid, courses, enrollVars, modules, topics, quizVars, essayVars,
                   forumVars>>
    /\ IF ~teacher_required(u)
       THEN Done("create_lesson", u, "denied") /\ UNCHANGED lessons
       ELSE IF ~Exists(topics, tid)
       THEN Done("create_lesson", u, "not_found") /\ UNCHANGED lessons
       ELSE IF NotOwner(u, Get(courses,
                              Get(modules, Get(topics, tid).module_id).course_id))
       THEN Done("create_lesson", u, "not_owner") /\ UNCHANGED lessons
       ELSE IF method = "GET"
       THEN Done("create_lesson", u, "form") /\ UNCHANGED lessons
       ELSE IF ~title_ok
       THEN Done("create_lesson", u, "invalid") /\ UNCHANGED lessons
       ELSE /\ lessons' = lessons \cup {[id |-> NextId(lessons), topic_id |-> tid,
                                      title |-> "created"]}
            /\ Done("create_lesson", u, "ok")

-----------------------------------------------------------------------------
(* Essays *)

\* create_essay: /teacher/courses/<course_id>/essays/create
CreateEssay(u, cid, method, form_ok, allows_file, max_points) ==
    /\ UNCHANGED <<notifVars, libraryVars>>
    /\ UNCHANGED <<has_paid, courses, enrollVars, curriculumVars, quizVars, forumVars,
                   essay_submissions>>
    /\ IF ~teacher_required(u)
       THEN Done("create_essay", u, "denied") /\ UNCHANGED essays
       ELSE IF ~Exists(courses, cid)
       THEN Done("create_essay", u, "not_found") /\ UNCHANGED essays
       ELSE IF NotOwner(u, Get(courses, cid))
       THEN Done("create_essay", u, "not_owner") /\ UNCHANGED essays
       ELSE IF method = "GET"
       THEN Done("create_essay", u, "form") /\ UNCHANGED essays
       ELSE IF ~form_ok
       THEN Done("create_essay", u, "invalid") /\ UNCHANGED essays
       ELSE /\ essays' = essays \cup
                 {[id |-> NextId(essays), course_id |-> cid,
                   allows_file_upload |-> allows_file, max_points |-> max_points]}
            /\ Done("create_essay", u, "ok")

\* Config.ALLOWED_EXTENSIONS
ALLOWED_EXTENSIONS ==
    {"pdf", "doc", "docx", "ppt", "pptx", "mp4", "mp3", "wav", "jpg", "jpeg", "png", "gif"}

\* str.lower() on the extensions the forms use
Lower(x) == CASE x = "PDF" -> "pdf" [] x = "EXE" -> "exe" [] OTHER -> x

\* allowed_file; a filename is the sequence of its parts between the dots
\* (<<>> for the empty filename, one part when it has no dot)
allowed_file_unchecked(filename) == TRUE
allowed_file(filename) ==
    Len(filename) >= 2 /\ Lower(filename[Len(filename)]) \in ALLOWED_EXTENSIONS

\* submit_essay: the lookup of the student's submission for the essay
existing_submission_unseen(u, eid) == FALSE
existing_submission(u, eid) ==
    \E sub \in essay_submissions : sub.student_id = u /\ sub.essay_id = eid

\* submit_essay: not text_content and not uploaded_file
NothingSent_ignored(text, uploaded_file) == FALSE
NothingSent(text, uploaded_file) == text = "" /\ uploaded_file = <<>>

\* submit_essay: /student/essays/<essay_id>/submit; text is the text_content
\* field, file the name of the uploaded file (<<>> when none)
SubmitEssay(u, eid, method, text, file, now) ==
    /\ UNCHANGED <<notifVars, libraryVars>>
    /\ UNCHANGED <<has_paid, courses, enrollVars, curriculumVars, quizVars, forumVars,
                   essays>>
    /\ IF ~student_required(u)
       THEN Done("submit_essay", u, "denied") /\ UNCHANGED essay_submissions
       ELSE IF ~Exists(essays, eid)
       THEN Done("submit_essay", u, "not_found") /\ UNCHANGED essay_submissions
       ELSE IF ~can_access_course(u, Get(essays, eid).course_id)
       THEN Done("submit_essay", u, "not_enrolled") /\ UNCHANGED essay_submissions
       ELSE IF existing_submission(u, eid)
       THEN Done("submit_essay", u, "already_submitted") /\ UNCHANGED essay_submissions
       ELSE IF method = "GET"
       THEN Done("submit_essay", u, "form") /\ UNCHANGED essay_submissions
       ELSE LET uploaded_file ==
                   IF Get(essays, eid).allows_file_upload /\ file # <<>>
                      /\ allowed_file(file)
                   THEN <<now, file>> ELSE <<>>
            IN IF NothingSent(text, uploaded_file)
               THEN Done("submit_essay", u, "invalid") /\ UNCHANGED essay_submissions
               ELSE /\ essay_submissions' = essay_submissions \cup
                         {[id |-> NextId(essay_submissions), student_id |-> u,
                           essay_id |-> eid, text_content |-> text,
                           uploaded_file |-> uploaded_file, score |-> <<>>,
                           feedback |-> "", graded |-> FALSE, graded_at |-> NullTime]}
                    /\ Done("submit_essay", u, "ok")

\* the score field of the grading form: int(score) succeeds on these only
Numeric(score) == score \in {"0", "7", "-3"}
int(score) == CASE score = "0" -> 0 [] score = "7" -> 7 [] score = "-3" -> 0 - 3

\* grade_essay_submission: the four assignments to the submission
Graded(sub, score, feedback, now) ==
    [sub EXCEPT !.score = <<int(score)>>, !.feedback = feedback,
                !.graded = TRUE, !.graded_at = now]

\* grade_essay_submission: /teacher/essay-submissions/<submission_id>/grade;
\* a NULL score is <<>>, a stored one <<n>>
GradeEssaySubmission(u, sid, method, score, feedback, now) ==
    /\ UNCHANGED <<notifVars, libraryVars>>
    /\ UNCHANGED <<has_paid, courses, enrollVars, curriculumVars, quizVars, forumVars,
                   essays>>
    /\ IF ~teacher_required(u)
       THEN Done("grade_essay_submission", u, "denied") /\ UNCHANGED essay_submissions
       ELSE IF ~Exists(essay_submissions, sid)
       THEN Done("grade_essay_submission", u, "not_found") /\ UNCHANGED essay_submissions
       ELSE LET sub == Get(essay_submissions, sid) IN
            IF NotOwner(u, Get(courses, Get(essays, sub.essay_id).course_id))
            THEN Done("grade_essay_submission", u, "not_owner")
                 /\ UNCHANGED essay_submissions
            ELSE IF method = "GET"
            THEN Done("grade_essay_submission", u, "form") /\ UNCHANGED essay_submissions
            ELSE IF score = ""
            THEN Done("grade_essay_submission", u, "invalid")
                 /\ UNCHANGED essay_submissions
            ELSE IF ~Numeric(score)
            THEN Done("grade_essay_submission", u, "error")
                 /\ UNCHANGED essay_submissions
            ELSE /\ essay_submissions' = (essay_submissions \ {sub}) \cup
                      {Graded(sub, score, feedback, now)}
                 /\ Done("grade_essay_submission", u, "ok")

-----------------------------------------------------------------------------
(* Live classes, discussions, replies *)

\* start_live_class: the lookup of an active live class of the course
active_class_unseen(cid) == FALSE
active_class(cid) == \E lc \in live_classes : lc.course_id = cid /\ lc.is_active

\* start_live_class: /teacher/courses/<course_id>/live-class/start
StartLiveClass(u, cid, method, form_ok, now) ==
    /\ UNCHANGED <<notifVars, libraryVars>>
    /\ UNCHANGED <<has_paid, courses, enrollVars, curriculumVars, quizVars, essayVars,
                   discussions, replies>>
    /\ IF ~teacher_required(u)
       THEN Done("start_live_class", u, "denied") /\ UNCHANGED live_classes
       ELSE IF ~Exists(courses, cid)
       THEN Done("start_live_class", u, "not_found") /\ UNCHANGED live_classes
       ELSE IF NotOwner(u, Get(courses, cid))
       THEN Done("start_live_class", u, "not_owner") /\ UNCHANGED live_classes
       ELSE IF active_class(cid)
       THEN Done("start_live_class", u, "already_active") /\ UNCHANGED live_classes
       ELSE IF method = "GET"
       THEN Done("start_live_class", u, "form") /\ UNCHANGED live_classes
       ELSE IF ~form_ok
       THEN Done("start_live_class", u, "invalid") /\ UNCHANGED live_classes
       ELSE /\ live_classes' = live_classes \cup
                 {[id |-> NextId(live_classes), course_id |-> cid, is_active |-> TRUE,
                   started_at |-> now, ended_at |-> NullTime]}
            /\ Done("start_live_class", u, "ok")

\* end_live_class: POST /teacher/live-classes/<live_class_id>/end
EndLiveClass(u, lid, now) ==
    /\ UNCHANGED <<notifVars, libraryVars>>
    /\ UNCHANGED <<has_paid, courses, enrollVars, curriculumVars, quizVars, essayVars,
                   discussions, replies>>
    /\ IF ~teacher_required(u)
       THEN Done("end_live_class", u, "denied") /\ UNCHANGED live_classes
       ELSE IF ~Exists(live_classes, lid)
       THEN Done("end_live_class", u, "not_found") /\ UNCHANGED live_classes
       ELSE LET lc == Get(live_classes, lid) IN
            IF NotOwner(u, Get(courses, lc.course_id))
            THEN Done("end_live_class", u, "not_owner") /\ UNCHANGED live_classes
            ELSE /\ live_classes' = (live_classes \ {lc}) \cup
                      {[lc EXCEPT !.is_active = FALSE, !.ended_at = now]}
                 /\ Done("end_live_class", u, "ok")

\* create_discussion: /courses/<course_id>/discussions/create (login_required only)
CreateDiscussion(u, cid, method, form_ok, is_pinned) ==
    /\ UNCHANGED <<notifVars, libraryVars>>
    /\ UNCHANGED <<has_paid, courses, enrollVars, curriculumVars, quizVars, essayVars,
                   live_classes, replies>>
    /\ IF ~Exists(courses, cid)
       THEN Done("create_discussion", u, "not_found") /\ UNCHANGED discussions
       ELSE IF is_student(u) /\ ~can_access_course(u, cid)
       THEN Done("create_discussion", u, "not_enrolled") /\ UNCHANGED discussions
       ELSE IF method = "GET"
       THEN Done("create_discussion", u, "form") /\ UNCHANGED discussions
       ELSE IF ~form_ok
       THEN Done("create_discussion", u, "invalid") /\ UNCHANGED discussions
       ELSE /\ discussions' = discussions \cup
                 {[id |-> NextId(discussions), course_id |-> cid, author_id |-> u,
                   is_pinned |-> (is_pinned /\ is_teacher(u))]}
            /\ Done("create_discussion", u, "ok")

\* reply_discussion: /discussions/<discussion_id>/reply (login_required only)
ReplyDiscussion(u, did, method, content_ok) ==
    /\ UNCHANGED <<notifVars, libraryVars>>
    /\ UNCHANGED <<has_paid, courses, enrollVars, curriculumVars, quizVars, essayVars,
                   live_classes, discussions>>
    /\ IF ~Exists(discussions, did)
       THEN Done("reply_discussion", u, "not_found") /\ UNCHANGED replies
       ELSE IF is_student(u) /\ ~can_access_course(u, Get(discussions, did).course_id)
       THEN Done("reply_discussion", u, "not_enrolled") /\ UNCHANGED replies
       ELSE IF method = "GET"
       THEN Done("reply_discussion", u, "form") /\ UNCHANGED replies
       ELSE IF ~content_ok
       THEN Done("reply_discussion", u, "invalid") /\ UNCHANGED replies
       ELSE /\ replies' = replies \cup
                 {[id |-> NextId(replies), discussion_id |-> did, author_id |-> u]}
            /\ Done("reply_discussion", u, "ok")

-----------------------------------------------------------------------------
(* Deleting a course: db.session.delete(course) and the ORM's cascades *)

\* Course.modules, enrollments, quizzes, essays, live_classes, discussions:
\* cascade='all, delete-orphan'
CourseRows(table, cid) == {r \in table : r.course_id = cid}

\* Module.topics, cascade='all, delete-orphan'
ModuleTopics(ms) == {t \in topics : \E m \in ms : t.module_id = m.id}

\* Topic.lessons, cascade='all, delete-orphan'
TopicLessonsKept(ts) == {}
TopicLessons(ts) == {l \in lessons : \E t \in ts : l.topic_id = t.id}

\* Quiz.questions, cascade='all, delete-orphan'
QuizQuestions(qs) == {q \in quiz_questions : \E z \in qs : q.quiz_id = z.id}

\* Quiz.submissions, cascade='all, delete-orphan'
QuizSubmissions(qs) == {sub \in quiz_submissions : \E z \in qs : sub.quiz_id = z.id}

\* QuizSubmission.answers, cascade='all, delete-orphan'
SubmissionAnswers(subs) ==
    {a \in quiz_answers : \E sub \in subs : a.submission_id = sub.id}

\* Essay.submissions, cascade='all, delete-orphan'
EssaySubmissions(es) == {sub \in essay_submissions : \E e \in es : sub.essay_id = e.id}

\* Discussion.replies, cascade='all, delete-orphan'
DiscussionReplies(ds) == {r \in replies : \E d \in ds : r.discussion_id = d.id}

\* delete_course: POST /admin/courses/<course_id>/delete
DeleteCourse(u, cid) ==
    /\ UNCHANGED <<notifVars, libraryVars>>
    /\ UNCHANGED <<has_paid, enroll_req, quiz_req>>
    /\ IF ~admin_required(u) \/ ~Exists(courses, cid)
       THEN /\ Done("delete_course", u, IF admin_required(u) THEN "not_found" ELSE "denied")
            /\ UNCHANGED <<courses, enrollments, curriculumVars, quizzes, quiz_questions,
                           quiz_submissions, quiz_answers, essayVars, forumVars>>
       ELSE LET ms == CourseRows(modules, cid)
                ts == ModuleTopics(ms)
                qs == CourseRows(quizzes, cid)
                subs == QuizSubmissions(qs)
                es == CourseRows(essays, cid)
                ds == CourseRows(discussions, cid)
            IN /\ courses' = courses \ {Get(courses, cid)}
               /\ enrollments' = enrollments \ CourseRows(enrollments, cid)
               /\ modules' = modules \ ms
               /\ topics' = topics \ ts
               /\ lessons' = lessons \ TopicLessons(ts)
               /\ quizzes' = quizzes \ qs
               /\ quiz_questions' = quiz_questions \ QuizQuestions(qs)
               /\ quiz_submissions' = quiz_submissions \ subs
               /\ quiz_answers' = quiz_answers \ SubmissionAnswers(subs)
               /\ essays' = essays \ es
               /\ essay_submissions' = essay_submissions \ EssaySubmissions(es)
               /\ live_classes' = live_classes \ CourseRows(live_classes, cid)
               /\ discussions' = discussions \ ds
               /\ replies' = replies \ DiscussionReplies(ds)
               /\ Done("delete_course", u, "ok")

-----------------------------------------------------------------------------
(* Editing and deleting modules, topics and lessons (owning teacher) *)

\* the assignments of an edit route to its row
Edited(row) == [row EXCEPT !.title = "edited"]

\* edit_module: /teacher/modules/<module_id>/edit
EditModule(u, mid, method, title_ok) ==
    /\ UNCHANGED <<notifVars, libraryVars>>
    /\ UNCHANGED <<has_paid, courses, enrollVars, topics, lessons, quizVars, essayVars,
                   forumVars>>
    /\ IF ~teacher_required(u)
       THEN Done("edit_module", u, "denied") /\ UNCHANGED modules
       ELSE IF ~Exists(modules, mid)
       THEN Done("edit_module", u, "not_found") /\ UNCHANGED modules
       ELSE IF NotOwner(u, Get(courses, Get(modules, mid).course_id))
       THEN Done("edit_module", u, "not_owner") /\ UNCHANGED modules
       ELSE IF method = "GET"
       THEN Done("edit_module", u, "form") /\ UNCHANGED modules
       ELSE IF ~title_ok
       THEN Done("edit_module", u, "invalid") /\ UNCHANGED modules
       ELSE /\ modules' = (modules \ {Get(modules, mid)})
                             \cup {Edited(Get(modules, mid))}
            /\ Done("edit_module", u, "ok")

\* delete_module: POST /teacher/modules/<module_id>/delete
DeleteModule(u, mid) ==
    /\ UNCHANGED <<notifVars, libraryVars>>
    /\ UNCHANGED <<has_paid, courses, enrollVars, quizVars, essayVars, forumVars>>
    /\ IF ~teacher_required(u)
       THEN Done("delete_module", u, "denied") /\ UNCHANGED curriculumVars
       ELSE IF ~Exists(modules, mid)
       THEN Done("delete_module", u, "not_found") /\ UNCHANGED curriculumVars
       ELSE IF NotOwner(u, Get(courses, Get(modules, mid).course_id))
       THEN Done("delete_module", u, "not_owner") /\ UNCHANGED curriculumVars
       ELSE LET ms == {Get(modules, mid)}
                ts == ModuleTopics(ms)
            IN /\ modules' = modules \ ms
               /\ topics' = topics \ ts
               /\ lessons' = lessons \ TopicLessons(ts)
               /\ Done("delete_module", u, "ok")

\* edit_topic: /teacher/topics/<topic_id>/edit
EditTopic(u, tid, method, title_ok) ==
    /\ UNCHANGED <<notifVars, libraryVars>>
    /\ UNCHANGED <<has_paid, courses, enrollVars, modules, lessons, quizVars, essayVars,
                   forumVars>>
    /\ IF ~teacher_required(u)
       THEN Done("edit_topic", u, "denied") /\ UNCHANGED topics
       ELSE IF ~Exists(topics, tid)
       THEN Done("edit_topic", u, "not_found") /\ UNCHANGED topics
       ELSE IF NotOwner(u, Get(courses,
                              Get(modules, Get(topics, tid).module_id).course_id))
       THEN Done("edit_topic", u, "not_owner") /\ UNCHANGED topics
       ELSE IF method = "GET"
       THEN Done("edit_topic", u, "form") /\ UNCHANGED topics
       ELSE IF ~title_ok
       THEN Done("edit_topic", u, "invalid") /\ UNCHANGED topics
       ELSE /\ topics' = (topics \ {Get(topics, tid)}) \cup {Edited(Get(topics, tid))}
            /\ Done("edit_topic", u, "ok")

\* delete_topic: POST /teacher/topics/<topic_id>/delete
DeleteTopic(u, tid) ==
    /\ UNCHANGED <<notifVars, libraryVars>>
    /\ UNCHANGED <<has_paid, courses, enrollVars, modules, quizVars, essayVars,
                   forumVars>>
    /\ IF ~teacher_required(u)
       THEN Done("delete_topic", u, "denied") /\ UNCHANGED <<topics, lessons>>
       ELSE IF ~Exists(topics, tid)
       THEN Done("delete_topic", u, "not_found") /\ UNCHANGED <<topics, lessons>>
       ELSE IF NotOwner(u, Get(courses,
                              Get(modules, Get(topics, tid).module_id).course_id))
       THEN Done("delete_topic", u, "not_owner") /\ UNCHANGED <<topics, lessons>>
       ELSE LET ts == {Get(topics, tid)}
            IN /\ topics' = topics \ ts
               /\ lessons' = lessons \ TopicLessons(ts)
               /\ Done("delete_topic", u, "ok")

\* the course of a lesson: lesson.topic.module.course
LessonCourse(lid) ==
    Get(courses,
        Get(modules, Get(topics, Get(lessons, lid).topic_id).module_id).course_id)

\* edit_lesson: /teacher/lessons/<lesson_id>/edit
EditLesson(u, lid, method, title_ok) ==
    /\ UNCHANGED <<notifVars, libraryVars>>
    /\ UNCHANGED <<has_paid, courses, enrollVars, modules, topics, quizVars, essayVars,
                   forumVars>>
    /\ IF ~teacher_required(u)
       THEN Done("edit_lesson", u, "denied") /\ UNCHANGED lessons
       ELSE IF ~Exists(lessons, lid)
       THEN Done("edit_lesson", u, "not_found") /\ UNCHANGED lessons
       ELSE IF NotOwner(u, LessonCourse(lid))
       THEN Done("edit_lesson", u, "not_owner") /\ UNCHANGED lessons
       ELSE IF method = "GET"
       THEN Done("edit_lesson", u, "form") /\ UNCHANGED lessons
       ELSE IF ~title_ok
       THEN Done("edit_lesson", u, "invalid") /\ UNCHANGED lessons
       ELSE /\ lessons' = (lessons \ {Get(lessons, lid)})
                             \cup {Edited(Get(lessons, lid))}
            /\ Done("edit_lesson", u, "ok")

\* delete_lesson: POST /teacher/lessons/<lesson_id>/delete
DeleteLesson(u, lid) ==
    /\ UNCHANGED <<notifVars, libraryVars>>
    /\ UNCHANGED <<has_paid, courses, enrollVars, modules, topics, quizVars, essayVars,
                   forumVars>>
    /\ IF ~teacher_required(u)
       THEN Done("delete_lesson", u, "denied") /\ UNCHANGED lessons
       ELSE IF ~Exists(lessons, lid)
       THEN Done("delete_lesson", u, "not_found") /\ UNCHANGED lessons
       ELSE IF NotOwner(u, LessonCourse(lid))
       THEN Done("delete_lesson", u, "not_owner") /\ UNCHANGED lessons
       ELSE /\ lessons' = lessons \ {Get(lessons, lid)}
            /\ Done("delete_lesson", u, "ok")

-----------------------------------------------------------------------------
(* Notifications *)

\* teacher_create_notification's query:
\* Enrollment.query.filter_by(course_id=course_id, status='approved')
approved_enrollments_any_status(cid) == {e \in enrollments : e.course_id = cid}
approved_enrollments(cid) ==
    {e \in enrollments : e.course_id = cid /\ e.status = "approved"}

\* teacher_create_notification: /teacher/courses/<course_id>/notifications/create;
\* one row per enrollment of the query, ids in the order of the enrollments
TeacherCreateNotification(u, cid, method, form_ok) ==
    /\ UNCHANGED <<has_paid, courses, enrollVars, curriculumVars, quizVars, essayVars,
                   forumVars, libraryVars>>
    /\ IF ~teacher_required(u)
       THEN Done("teacher_create_notification", u, "denied") /\ UNCHANGED notifications
       ELSE IF ~Exists(courses, cid)
       THEN Done("teacher_create_notification", u, "not_found")
            /\ UNCHANGED notifications
       ELSE IF NotOwner(u, Get(courses, cid))
       THEN Done("teacher_create_notification", u, "not_owner")
            /\ UNCHANGED notifications
       ELSE IF method = "GET"
       THEN Done("teacher_create_notification", u, "form") /\ UNCHANGED notifications
       ELSE IF ~form_ok
       THEN Done("teacher_create_notification", u, "invalid")
            /\ UNCHANGED notifications
       ELSE LET es == approved_enrollments(cid)
                first == NextId(notifications)
                rank(e) == Cardinality({d \in es : d.id < e.id})
            IN /\ notifications' = notifications \cup
                    {[id |-> first + rank(e), recipient_id |-> e.student_id,
                      read_at |-> NullTime] : e \in es}
               /\ Done("teacher_create_notification", u, "ok")

\* mark_notification_read: `if notification.recipient_id != current_user.id`
NotRecipientNever(u, n) == FALSE
NotRecipient(u, n) == n.recipient_id # u

\* mark_notification_read: POST /student/notifications/<notification_id>/read
MarkNotificationRead(u, nid, now) ==
    /\ UNCHANGED <<has_paid, courses, enrollVars, curriculumVars, quizVars, essayVars,
                   forumVars, libraryVars>>
    /\ IF ~student_required(u)
       THEN Done("mark_notification_read", u, "denied") /\ UNCHANGED notifications
       ELSE IF ~Exists(notifications, nid)
       THEN Done("mark_notification_read", u, "not_found") /\ UNCHANGED notifications
       ELSE IF NotRecipient(u, Get(notifications, nid))
       THEN Done("mark_notification_read", u, "not_recipient")
            /\ UNCHANGED notifications
       ELSE /\ notifications' = (notifications \ {Get(notifications, nid)})
                  \cup {[Get(notifications, nid) EXCEPT !.read_at = now]}
            /\ Done("mark_notification_read", u, "ok")

-----------------------------------------------------------------------------
(* Viewing a course and a lesson (login_required only; nothing is written) *)

\* course_detail: /courses/<course_id>; "shown": the template is rendered with
\* the curriculum, quizzes, essays, live classes and discussions of the course
CourseDetail(u, cid) ==
    /\ UNCHANGED stored
    /\ UNCHANGED <<enroll_req, quiz_req>>
    /\ IF ~Exists(courses, cid)
       THEN Done("course_detail", u, "not_found")
       ELSE IF is_student(u) /\ ~can_access_course(u, cid)
       THEN Done("course_detail", u, "not_enrolled")
       ELSE Done("course_detail", u, "shown")

\* view_lesson: /lessons/<lesson_id>
ViewLesson(u, lid) ==
    /\ UNCHANGED stored
    /\ UNCHANGED <<enroll_req, quiz_req>>
    /\ IF ~Exists(lessons, lid)
       THEN Done("view_lesson", u, "not_found")
       ELSE IF is_student(u) /\ ~can_access_course(u, LessonCourse(lid).id)
       THEN Done("view_lesson", u, "not_enrolled")
       ELSE IF is_teacher(u) /\ LessonCourse(lid).teacher_id # u
       THEN Done("view_lesson", u, "not_teacher")
       ELSE Done("view_lesson", u, "shown")

-----------------------------------------------------------------------------
(* The library: rows of library_resources and the files of uploads/library *)

\* the timestamp a new file is stored under: later than those in use (the
\* prefix `datetime.utcnow().timestamp()` of the stored name)
NextStamp ==
    LET used == {f.stamp : f \in library_files \cup
                                 {r.file_name : r \in library_resources}}
    IN IF used = {} THEN 1 ELSE Max(used) + 1

\* upload_library_resource: /admin/library/upload.  The file is saved before
\* the try block; failed: the insert or the commit raises.
UploadLibraryResource(u, method, has_file, filename, failed) ==
    /\ UNCHANGED <<has_paid, courses, enrollVars, curriculumVars, quizVars, essayVars,
                   forumVars, notifVars>>
    /\ IF ~admin_required(u)
       THEN Done("upload_library_resource", u, "denied") /\ UNCHANGED libraryVars
       ELSE IF method = "GET"
       THEN Done("upload_library_resource", u, "form") /\ UNCHANGED libraryVars
       ELSE IF ~has_file
       THEN Done("upload_library_resource", u, "no_file") /\ UNCHANGED libraryVars
       ELSE IF filename = <<>> \/ ~allowed_file(filename)
       THEN Done("upload_library_resource", u, "invalid") /\ UNCHANGED libraryVars
       ELSE LET name == [stamp |-> NextStamp, name |-> filename]
            IN /\ library_files' = library_files \cup {name}
               /\ IF failed
                  THEN /\ UNCHANGED library_resources
                       /\ Done("upload_library_resource", u, "error")
                  ELSE /\ library_resources' = library_resources \cup
                            {[id |-> NextId(library_resources), file_name |-> name]}
                       /\ Done("upload_library_resource", u, "ok")

\* delete_library_resource: POST /admin/library/<resource_id>/delete.
\* failure: "remove" when os.remove raises, "commit" when the commit raises,
\* "none" otherwise; the except branch rolls the session back, which restores
\* the row and no file.
DeleteLibraryResource(u, rid, failure) ==
    /\ UNCHANGED <<has_paid, courses, enrollVars, curriculumVars, quizVars, essayVars,
                   forumVars, notifVars>>
    /\ IF ~admin_required(u)
       THEN Done("delete_library_resource", u, "denied") /\ UNCHANGED libraryVars
       ELSE IF ~Exists(library_resources, rid)
       THEN Done("delete_library_resource", u, "not_found") /\ UNCHANGED libraryVars
       ELSE LET resource == Get(library_resources, rid)
                on_disk == resource.file_name \in library_files
            IN /\ failure = "remove" => on_disk
               /\ IF failure = "remove"
                  THEN /\ UNCHANGED libraryVars
                       /\ Done("delete_library_resource", u, "error")
                  ELSE /\ library_files' = library_files \ {resource.file_name}
                       /\ IF failure = "commit"
                          THEN /\ UNCHANGED library_resources
                               /\ Done("delete_library_resource", u, "error")
                          ELSE /\ library_resources' = library_resources \ {resource}
                               /\ Done("delete_library_resource", u, "ok")

\* the ids a request may name: the rows of the table and one that is no row
Ids(table) == {r.id : r \in table} \cup {NextId(table)}

-----------------------------------------------------------------------------
(* The enrollment lifecycle of one course, requests interleaving *)

\* The forms a request of user u is tried with: a request its decorator turns
\* away never reads its form, so one form stands for all of them.
Forms(allowed, S) == IF allowed THEN S ELSE {CHOOSE f \in S : TRUE}

\* <<form_ok, max_students, teacher_id>> of the course forms: every complete
\* form, one with a required field missing, one naming a user who is no teacher
CourseForms ==
    ({TRUE} \X Capacities \X (Teachers \cup {NULL}))
        \cup {<<FALSE, 1, NULL>>, <<TRUE, 1, "s1">>}

\* <<method, form_ok>> of make_payment
PaymentForms == {<<"GET", TRUE>>, <<"POST", FALSE>>, <<"POST", TRUE>>}

Next ==
    \/ /\ courses = {}
       /\ \E u \in Users : \E f \in Forms(admin_required(u), CourseForms) :
             CreateCourse(u, f[1], f[2], f[3])
    \/ \E u \in Users :
          \E f \in Forms(admin_required(u), Ids(courses) \X CourseForms) :
             EditCourse(u, f[1], f[2][1], f[2][2], f[2][3])
    \/ \E u \in Users : \E f \in Forms(student_required(u), PaymentForms) :
          MakePayment(u, f[1], f[2])
    \/ /\ Cardinality(enroll_req) < MaxInFlight
       /\ \E u \in Users : \E cid \in Forms(student_required(u), Ids(courses)) :
             RequestEnrollmentCheck(u, cid)
    \/ \E r \in enroll_req : RequestEnrollmentCommit(r)
    \/ \E u \in Users :
          \E f \in Forms(teacher_required(u), Ids(enrollments) \X Times) :
             ApproveEnrollment(u, f[1], f[2])
    \/ \E u \in Users :
          \E f \in Forms(teacher_required(u), Ids(enrollments) \X Times) :
             DeclineEnrollment(u, f[1], f[2])
    \/ \E u \in Users :
          \E f \in Forms(admin_required(u), Ids(enrollments) \X Times) :
             AdminApproveEnrollment(u, f[1], f[2])
    \/ \E u \in Users :
          \E f \in Forms(admin_required(u), Ids(enrollments) \X Times) :
             AdminDeclineEnrollment(u, f[1], f[2])

Spec == Init /\ [][Next]_vars

-----------------------------------------------------------------------------
(* Quizzes of one course, requests served one at a time *)

\* no request is between its checks and its insert
Idle == enroll_req = {} /\ quiz_req = {}

\* A state the enrollment lifecycle reaches (Spec reaches it): course 1 of
\* teacher t1, student s1 approved by t1, student s2 still pending.
InitQuiz ==
    /\ has_paid = [s \in Students |-> TRUE]
    /\ courses = {[id |-> 1, max_students |-> 2, teacher_id |-> "t1"]}
    /\ enrollments =
         {[id |-> 1, student_id |-> "s1", course_id |-> 1, status |-> "approved",
           responded_at |-> 1],
          [id |-> 2, student_id |-> "s2", course_id |-> 1, status |-> "pending",
           responded_at |-> NullTime]}
    /\ enroll_req = {}
    /\ modules = {}
    /\ topics = {}
    /\ lessons = {}
    /\ quizzes = {}
    /\ quiz_questions = {}
    /\ quiz_submissions = {}
    /\ quiz_answers = {}
    /\ quiz_req = {}
    /\ essays = {}
    /\ essay_submissions = {}
    /\ live_classes = {}
    /\ discussions = {}
    /\ replies = {}
    /\ notifications = {}
    /\ library_resources = {}
    /\ library_files = {}
    /\ last = [op |-> "approve_enrollment", user |-> "t1", outcome |-> "ok"]

\* the question forms: a question whose correct option is typed in lower
\* case, one in upper case, one with a field missing
QuestionForms ==
    {[complete |-> TRUE, correct |-> "a", points |-> 5],
     [complete |-> TRUE, correct |-> "C", points |-> 10],
     [complete |-> FALSE, correct |-> "C", points |-> 10]}

\* <<method, title_ok, questions>> of create_quiz
QuizForms ==
    {<<"GET", TRUE, <<>>>>, <<"POST", FALSE, <<>>>>}
        \cup {<<"POST", TRUE, qs>> :
                qs \in UNION {[1..n -> QuestionForms] : n \in 0..MaxQuestions}}

\* the options a student sends for a question: none, a right or wrong letter
\* in either case
AnswerOptions == {"", "a", "A", "B", "C"}

NextQuiz ==
    \/ /\ Idle /\ quizzes = {}
       /\ \E u \in Users :
             \E f \in Forms(teacher_required(u), Ids(courses) \X QuizForms) :
                CreateQuiz(u, f[1], f[2][1], f[2][2], f[2][3])
    \/ /\ Idle
       /\ \E u \in Users :
             \E f \in Forms(student_required(u), Ids(quizzes) \X {"GET", "POST"}) :
                TakeQuizCheck(u, f[1], f[2])
    \/ \E r \in quiz_req, failed \in BOOLEAN :
          \E f \in Forms(~failed, [{q.id : q \in r.questions} -> AnswerOptions]
                                      \X Times),
             processed \in 0..Cardinality(r.questions) :
             TakeQuizCommit(r, f[1], f[2], failed, processed)
    \/ /\ Idle
       /\ \E u \in Users :
             \E f \in Forms(teacher_required(u), Ids(enrollments) \X Times) :
                DeclineEnrollment(u, f[1], f[2])

SpecQuiz == InitQuiz /\ [][NextQuiz]_vars

-----------------------------------------------------------------------------
(* Quizzes of one course, take_quiz requests served concurrently *)

\* Up to MaxInFlight take_quiz POSTs are between their lookup and their
\* insert at a time; the quiz, of one question, is created while none is.
NextQuizRace ==
    \/ /\ Idle /\ quizzes = {}
       /\ \E u \in Teachers, cid \in Ids(courses), q \in QuestionForms :
             CreateQuiz(u, cid, "POST", TRUE, <<q>>)
    \/ /\ Cardinality(quiz_req) < MaxInFlight
       /\ \E u \in Students :
             \E f \in Ids(quizzes) \X {"GET", "POST"} :
                TakeQuizCheck(u, f[1], f[2])
    \/ \E r \in quiz_req, failed \in BOOLEAN :
          \E f \in Forms(~failed, [{q.id : q \in r.questions} -> AnswerOptions]
                                      \X Times),
             processed \in 0..Cardinality(r.questions) :
             TakeQuizCommit(r, f[1], f[2], failed, processed)

SpecQuizRace == InitQuiz /\ [][NextQuizRace]_vars

-----------------------------------------------------------------------------
(* Two courses with their content, requests served one at a time *)

\* Reachable from Init: the admin creates two courses, both students pay,
\* each requests one course and its teacher approves (SpecSetup below).
InitContent ==
    /\ has_paid = [u \in Students |-> TRUE]
    /\ courses = {[id |-> 1, max_students |-> 2, teacher_id |-> "t1"],
                  [id |-> 2, max_students |-> 2, teacher_id |-> "t2"]}
    /\ enrollments = {[id |-> 1, student_id |-> "s1", course_id |-> 1,
                       status |-> "approved", responded_at |-> 1],
                      [id |-> 2, student_id |-> "s2", course_id |-> 2,
                       status |-> "approved", responded_at |-> 1]}
    /\ enroll_req = {}
    /\ modules = {} /\ topics = {} /\ lessons = {}
    /\ quizzes = {} /\ quiz_questions = {} /\ quiz_submissions = {}
    /\ quiz_answers = {} /\ quiz_req = {}
    /\ essays = {} /\ essay_submissions = {}
    /\ live_classes = {} /\ discussions = {} /\ replies = {}
    /\ notifications = {} /\ library_resources = {} /\ library_files = {}
    /\ last = [op |-> "approve_enrollment", user |-> "t2", outcome |-> "ok"]

NextSetup ==
    \/ \E tid \in Teachers : CreateCourse("a1", TRUE, 2, tid)
    \/ \E s \in Students : MakePayment(s, "POST", TRUE)
    \/ Idle /\ \E s \in Students : \E cid \in Ids(courses) :
           RequestEnrollmentCheck(s, cid)
    \/ \E r \in enroll_req : RequestEnrollmentCommit(r)
    \/ \E u \in Teachers : \E eid \in Ids(enrollments) : ApproveEnrollment(u, eid, 1)

SpecSetup == Init /\ [][NextSetup /\ Cardinality(courses') <= 2]_vars

\* the course a row belongs to, through its parents (foreign keys)
CourseOfModule(mid) == Get(modules, mid).course_id
CourseOfTopic(tid) == CourseOfModule(Get(topics, tid).module_id)
CourseOfQuiz(qid) == Get(quizzes, qid).course_id
CourseOfSubmission(sid) == CourseOfQuiz(Get(quiz_submissions, sid).quiz_id)
CourseOfEssay(eid) == Get(essays, eid).course_id
CourseOfDiscussion(did) == Get(discussions, did).course_id

\* rows of the content tables
ContentRows ==
    Cardinality(modules) + Cardinality(topics) + Cardinality(lessons)
    + Cardinality(quizzes) + Cardinality(quiz_questions)
    + Cardinality(quiz_submissions) + Cardinality(quiz_answers)
    + Cardinality(essays) + Cardinality(essay_submissions)
    + Cardinality(live_classes) + Cardinality(discussions) + Cardinality(replies)

Room == Idle /\ ContentRows < MaxRows

OneQuestion == <<[complete |-> TRUE, correct |-> "a", points |-> 5]>>

\* the rows a request may name
Rows(table) == {r.id : r \in table}

\* the teacher of the course a request is about
Owner(cid) == Get(courses, cid).teacher_id

NextContent ==
    \/ Room /\ \E cid \in Rows(courses) : CreateModule(Owner(cid), cid, "POST", TRUE)
    \/ Room /\ \E mid \in Rows(modules) :
           CreateTopic(Owner(CourseOfModule(mid)), mid, "POST", TRUE)
    \/ Room /\ \E tid \in Rows(topics) :
           CreateLesson(Owner(CourseOfTopic(tid)), tid, "POST", TRUE)
    \/ Room /\ \E cid \in Rows(courses) :
           CreateQuiz(Owner(cid), cid, "POST", TRUE, OneQuestion)
    \/ Room /\ \E u \in Students : \E qid \in Rows(quizzes) :
           TakeQuizCheck(u, qid, "POST")
    \/ \E r \in quiz_req : \E o \in {"a", "B"} :
           TakeQuizCommit(r, [q \in {x.id : x \in r.questions} |-> o], 1,
                          FALSE, Cardinality(r.questions))
    \/ Room /\ \E cid \in Rows(courses) :
           CreateEssay(Owner(cid), cid, "POST", TRUE, TRUE, 10)
    \/ Room /\ \E u \in Students : \E eid \in Rows(essays) :
           SubmitEssay(u, eid, "POST", "text", <<>>, 1)
    \/ Room /\ \E cid \in Rows(courses) :
           StartLiveClass(Owner(cid), cid, "POST", TRUE, 1)
    \/ Idle /\ \E sid \in Rows(essay_submissions) :
           GradeEssaySubmission(
               Owner(CourseOfEssay(Get(essay_submissions, sid).essay_id)),
               sid, "POST", "7", "good", 1)
    \/ Idle /\ \E lid \in Rows(live_classes) :
           EndLiveClass(Owner(Get(live_classes, lid).course_id), lid, 1)
    \/ Room /\ \E u \in Students : \E cid \in Rows(courses) :
           CreateDiscussion(u, cid, "POST", TRUE, FALSE)
    \/ Room /\ \E u \in Students : \E did \in Rows(discussions) :
           ReplyDiscussion(u, did, "POST", TRUE)
    \/ Idle /\ \E u \in Admins \cup {"t1"} : \E cid \in Rows(courses) :
           DeleteCourse(u, cid)

SpecContent == InitContent /\ [][NextContent]_vars

-----------------------------------------------------------------------------
(* Essays of one course, requests served one at a time *)

\* <<method, form_ok, allows_file_upload>> of create_essay
EssayForms == {<<"GET", TRUE, TRUE>>, <<"POST", FALSE, TRUE>>}
                 \cup ({"POST"} \X {TRUE} \X BOOLEAN)

\* the files a student attaches: none, an accepted one, one with a refused
\* extension, one without extension
Files == {<<>>, <<"essay", "PDF">>, <<"essay", "exe">>, <<"essay">>}

\* <<method, text_content, file>> of submit_essay
SubmitForms ==
    {<<"GET", "", <<>>>>, <<"POST", "text", <<>>>>} \cup ({"POST"} \X {""} \X Files)

\* <<method, score, feedback>> of grade_essay_submission
GradeForms == {<<"GET", "", "">>} \cup ({"POST"} \X {"", "abc", "0", "7"} \X {"good"})

NextEssay ==
    \/ /\ Cardinality(essays) < MaxEssays
       /\ \E u \in Users :
             \E f \in Forms(teacher_required(u), Ids(courses) \X EssayForms) :
                CreateEssay(u, f[1], f[2][1], f[2][2], f[2][3], 10)
    \/ \E u \in Users :
          \E f \in Forms(student_required(u), Ids(essays) \X SubmitForms \X Times) :
             SubmitEssay(u, f[1], f[2][1], f[2][2], f[2][3], f[3])
    \/ \E u \in Users :
          \E f \in Forms(teacher_required(u),
                         Ids(essay_submissions) \X GradeForms \X Times) :
             GradeEssaySubmission(u, f[1], f[2][1], f[2][2], f[2][3], f[3])

SpecEssay == InitQuiz /\ [][NextEssay]_vars

-----------------------------------------------------------------------------
(* Live classes of two courses, requests served one at a time *)

\* <<method, form_ok>> of start_live_class
LiveForms == {<<"GET", TRUE>>, <<"POST", FALSE>>, <<"POST", TRUE>>}

NextLive ==
    \/ /\ Cardinality(live_classes) < MaxLive
       /\ \E u \in Users :
             \E f \in Forms(teacher_required(u), Ids(courses) \X LiveForms \X Times) :
                StartLiveClass(u, f[1], f[2][1], f[2][2], f[3])
    \/ \E u \in Users :
          \E f \in Forms(teacher_required(u), Ids(live_classes) \X Times) :
             EndLiveClass(u, f[1], f[2])

SpecLive == InitContent /\ [][NextLive]_vars

-----------------------------------------------------------------------------
(* The teacher routes of two courses, each asked for by both teachers *)

\* fewer than MaxTeacherRows rows of content and notifications are stored,
\* and the ids of the tables with deletions have no gap (so that ids stay
\* within the number of rows)
TeacherRoom ==
    /\ ContentRows + Cardinality(notifications) < MaxTeacherRows
    /\ NextId(modules) = Cardinality(modules) + 1
    /\ NextId(topics) = Cardinality(topics) + 1
    /\ NextId(lessons) = Cardinality(lessons) + 1

NextTeacher ==
    \/ TeacherRoom /\ \E u \in Teachers, cid \in Rows(courses) :
           CreateModule(u, cid, "POST", TRUE)
    \/ \E u \in Teachers, mid \in Rows(modules) : EditModule(u, mid, "POST", TRUE)
    \/ \E u \in Teachers, mid \in Rows(modules) : DeleteModule(u, mid)
    \/ TeacherRoom /\ \E u \in Teachers, mid \in Rows(modules) :
           CreateTopic(u, mid, "POST", TRUE)
    \/ \E u \in Teachers, tid \in Rows(topics) : EditTopic(u, tid, "POST", TRUE)
    \/ \E u \in Teachers, tid \in Rows(topics) : DeleteTopic(u, tid)
    \/ TeacherRoom /\ \E u \in Teachers, tid \in Rows(topics) :
           CreateLesson(u, tid, "POST", TRUE)
    \/ \E u \in Teachers, lid \in Rows(lessons) : EditLesson(u, lid, "POST", TRUE)
    \/ \E u \in Teachers, lid \in Rows(lessons) : DeleteLesson(u, lid)
    \/ TeacherRoom /\ \E u \in Teachers, cid \in Rows(courses) :
           CreateQuiz(u, cid, "POST", TRUE, OneQuestion)
    \/ TeacherRoom /\ \E u \in Teachers, cid \in Rows(courses) :
           CreateEssay(u, cid, "POST", TRUE, TRUE, 10)
    \/ TeacherRoom /\ \E u \in Students, eid \in Rows(essays) :
           SubmitEssay(u, eid, "POST", "text", <<>>, 1)
    \/ \E u \in Teachers, sid \in Rows(essay_submissions) :
           GradeEssaySubmission(u, sid, "POST", "7", "good", 1)
    \/ TeacherRoom /\ \E u \in Teachers, cid \in Rows(courses) :
           StartLiveClass(u, cid, "POST", TRUE, 1)
    \/ \E u \in Teachers, lid \in Rows(live_classes) : EndLiveClass(u, lid, 1)
    \/ TeacherRoom /\ \E u \in Teachers, cid \in Rows(courses) :
           TeacherCreateNotification(u, cid, "POST", TRUE)

SpecTeacher == InitContent /\ [][NextTeacher]_vars

-----------------------------------------------------------------------------
(* Notifications of two courses whose enrollments change *)

\* <<method, form_ok>> of teacher_create_notification
NotificationForms == {<<"GET", TRUE>>, <<"POST", FALSE>>, <<"POST", TRUE>>}

NextNotify ==
    \/ Idle /\ \E s \in Students, cid \in Rows(courses) : RequestEnrollmentCheck(s, cid)
    \/ \E r \in enroll_req : RequestEnrollmentCommit(r)
    \/ Idle /\ \E eid \in Rows(enrollments) :
           DeclineEnrollment(Owner(Get(enrollments, eid).course_id), eid, 1)
    \/ /\ Idle /\ Cardinality(notifications) < MaxNotifications
       /\ \E u \in Users :
             \E f \in Forms(teacher_required(u), Ids(courses) \X NotificationForms) :
                TeacherCreateNotification(u, f[1], f[2][1], f[2][2])
    \/ /\ Idle
       /\ \E u \in Users :
             \E nid \in Forms(student_required(u), Ids(notifications)) :
                MarkNotificationRead(u, nid, 1)

SpecNotify == InitContent /\ [][NextNotify]_vars

-----------------------------------------------------------------------------
(* Two courses viewed by every user while their curriculum grows *)

NextView ==
    \/ Room /\ \E cid \in Rows(courses) : CreateModule(Owner(cid), cid, "POST", TRUE)
    \/ Room /\ \E mid \in Rows(modules) :
           CreateTopic(Owner(CourseOfModule(mid)), mid, "POST", TRUE)
    \/ Room /\ \E tid \in Rows(topics) :
           CreateLesson(Owner(CourseOfTopic(tid)), tid, "POST", TRUE)
    \/ \E eid \in Rows(enrollments) :
          DeclineEnrollment(Owner(Get(enrollments, eid).course_id), eid, 1)
    \/ \E u \in Users, cid \in Ids(courses) : CourseDetail(u, cid)
    \/ \E u \in Users, lid \in Ids(lessons) : ViewLesson(u, lid)

SpecView == InitContent /\ [][NextView]_vars

-----------------------------------------------------------------------------
(* The discussions of two courses, every user posting *)

\* <<method, form_ok, is_pinned>> of create_discussion
DiscussionForms ==
    {<<"GET", TRUE, FALSE>>, <<"POST", FALSE, FALSE>>,
     <<"POST", TRUE, FALSE>>, <<"POST", TRUE, TRUE>>}

\* <<method, content_ok>> of reply_discussion
ReplyForms == {<<"GET", TRUE>>, <<"POST", FALSE>>, <<"POST", TRUE>>}

NextForum ==
    \/ /\ Cardinality(discussions) + Cardinality(replies) < MaxPosts
       /\ \E u \in Users, cid \in Ids(courses), f \in DiscussionForms :
             CreateDiscussion(u, cid, f[1], f[2], f[3])
    \/ /\ Cardinality(discussions) + Cardinality(replies) < MaxPosts
       /\ \E u \in Users, did \in Ids(discussions), f \in ReplyForms :
             ReplyDiscussion(u, did, f[1], f[2])

SpecForum == InitContent /\ [][NextForum]_vars

-----------------------------------------------------------------------------
(* Quizzes whose questions carry any integer as points *)

\* question forms with the point values int() accepts: create_quiz reads
\* `int(request.form.get(f'question_{i}_points', 1))` and checks no sign
PointForms ==
    {[complete |-> TRUE, correct |-> "A", points |-> 0 - 5],
     [complete |-> TRUE, correct |-> "C", points |-> 10]}

NextQuizPoints ==
    \/ /\ Idle /\ quizzes = {}
       /\ \E qs \in UNION {[1..n -> PointForms] : n \in 1..MaxQuestions} :
             CreateQuiz("t1", 1, "POST", TRUE, qs)
    \/ Idle /\ \E u \in Students, qid \in Rows(quizzes) : TakeQuizCheck(u, qid, "POST")
    \/ \E r \in quiz_req :
          \E form \in [{q.id : q \in r.questions} -> {"", "A", "C"}] :
             TakeQuizCommit(r, form, 1, FALSE, Cardinality(r.questions))

SpecQuizPoints == InitQuiz /\ [][NextQuizPoints]_vars

-----------------------------------------------------------------------------
(* The library, uploads and deletions that may fail *)

\* <<method, has_file, filename>> of upload_library_resource
UploadForms ==
    {<<"GET", FALSE, <<>>>>, <<"POST", FALSE, <<>>>>, <<"POST", TRUE, <<>>>>,
     <<"POST", TRUE, <<"atlas", "PDF">>>>, <<"POST", TRUE, <<"atlas", "exe">>>>}

NextLibrary ==
    \/ /\ NextStamp <= MaxUploads
       /\ \E u \in Users, failed \in BOOLEAN :
             \E f \in Forms(admin_required(u), UploadForms) :
                UploadLibraryResource(u, f[1], f[2], f[3], failed)
    \/ \E u \in Users, failure \in {"none", "remove", "commit"} :
          \E rid \in Forms(admin_required(u), Ids(library_resources)) :
             DeleteLibraryResource(u, rid, failure)

SpecLibrary == Init /\ [][NextLibrary]_vars

-----------------------------------------------------------------------------
(* Properties of the enrollment lifecycle *)

SameRow(e, e2) == e2.id = e.id

ApproveOps == {"approve_enrollment", "admin_approve_enrollment"}
DeclineOps == {"decline_enrollment", "admin_decline_enrollment"}

\* C1: while a student's has_paid is false, no step creates an enrollment row
\* of that student, and a request_enrollment of that student for any course
\* leaves the enrollment rows (and the requests under way) as they were.
C1_UnpaidNeverEnrolls ==
    [][\A s \in Students : ~has_paid[s] =>
          /\ {e \in enrollments' : e.student_id = s} \subseteq enrollments
          /\ \A cid \in Ids(courses) :
                RequestEnrollmentCheck(s, cid) => UNCHANGED <<enrollments, enroll_req>>
      ]_vars

\* an unpaid student's request for an existing course was just turned away
C1_Witness ==
    /\ last.op = "request_enrollment"
    /\ last.outcome = "unpaid"
    /\ ~has_paid[last.user]
    /\ courses # {}

\* C2: at most one enrollment row per (student, course), in every state, also
\* when two requests for the same pair both pass the lookup before either inserts.
C2_OneRowPerPair ==
    \A e1, e2 \in enrollments :
        (e1.student_id = e2.student_id /\ e1.course_id = e2.course_id) => e1 = e2

\* the second of two interleaved requests for one pair failed at its commit
C2_Witness ==
    /\ last.op = "request_enrollment"
    /\ last.outcome = "error"
    /\ \E e \in enrollments : e.student_id = last.user /\ Exists(courses, e.course_id)

RespondOps == ApproveOps \cup DeclineOps

\* C3: an approve or decline (teacher or admin route) keeps every row's id,
\* student_id and course_id, changes status and responded_at of at most one
\* row, and adds or removes no row.
C3_RespondFrame ==
    [][last'.op \in RespondOps =>
          /\ \A e \in enrollments : \E e2 \in enrollments' :
                /\ e2.id = e.id
                /\ e2.student_id = e.student_id
                /\ e2.course_id = e.course_id
          /\ Cardinality(enrollments') = Cardinality(enrollments)
          /\ Cardinality(enrollments \ enrollments') <= 1
          /\ UNCHANGED <<has_paid, courses, enroll_req>>
      ]_vars

\* an approval that rewrote an answered row: a second row stayed as it was
C3_Witness ==
    /\ last.op \in RespondOps
    /\ last.outcome = "ok"
    /\ \E e1, e2 \in enrollments :
          e1 # e2 /\ e1.status = "approved" /\ e1.responded_at # NullTime

\* C8 as claimed: enrolled_count <= max_students in every state.
C8_Original ==
    \A c \in courses : enrolled_count(c.id) <= c.max_students

\* C8 as amended: capacity is checked only when request_enrollment runs; a
\* request goes on to its insert only if enrolled_count < max_students then.
C8_CheckedAtRequest ==
    [][\A r \in enroll_req' \ enroll_req :
          \E c \in courses :
             c.id = r.course_id /\ enrolled_count(c.id) < c.max_students
      ]_vars

\* a request passed the capacity check of a course that has an approved student
C8_Witness ==
    \E r \in enroll_req : enrolled_count(r.course_id) >= 1

\* C9 as claimed: once approved or declined, the status never changes.
C9_Original ==
    [][\A e \in enrollments, e2 \in enrollments' :
          (SameRow(e, e2) /\ e.status \in {"approved", "declined"})
             => e2.status = e.status
      ]_vars

\* C9 as amended: a status changes only by an approve route, to approved, or
\* by a decline route, to declined, whatever the status was before.
C9_ChangesOnlyByRespond ==
    [][\A e \in enrollments, e2 \in enrollments' :
          (SameRow(e, e2) /\ e.status # e2.status) =>
             \/ e2.status = "approved" /\ last'.op \in ApproveOps
             \/ e2.status = "declined" /\ last'.op \in DeclineOps
      ]_vars

\* a decline route just set a row to declined
C9_Witness ==
    /\ last.op \in DeclineOps
    /\ last.outcome = "ok"
    /\ \E e \in enrollments : e.status = "declined" /\ e.responded_at # NullTime

\* C10: status and responded_at of an enrollment change only by an approve /
\* decline route; on the teacher routes only when the requester is the teacher
\* whose id is the teacher_id of the enrollment's course, on the admin routes
\* only when the requester is an admin.  Any other requester changes no row.
C10_OnlyOwnerOrAdmin ==
    [][/\ \A e \in enrollments, e2 \in enrollments' :
            (SameRow(e, e2) /\ e # e2) =>
               \/ /\ last'.op \in {"approve_enrollment", "decline_enrollment"}
                  /\ is_teacher(last'.user)
                  /\ \E c \in courses : c.id = e.course_id /\ c.teacher_id = last'.user
               \/ /\ last'.op \in {"admin_approve_enrollment", "admin_decline_enrollment"}
                  /\ is_admin(last'.user)
       /\ (last'.op \in RespondOps /\ last'.outcome # "ok") => UNCHANGED enrollments
      ]_vars

\* a teacher who does not own the course was turned away from a pending row
C10_Witness ==
    /\ last.op = "approve_enrollment"
    /\ last.outcome = "not_owner"
    /\ is_teacher(last.user)
    /\ \E e \in enrollments : e.status = "pending"

\* C7: for a course with max_students = 1: a paid student's request that is
\* committed adds a pending row; the owning teacher's approval of the first
\* pending row makes it approved, enrolled_count 1 and is_full true; a request
\* of another paid student without a row is then turned away as full, and no
\* row and no request under way is added for that student.
C7_CapacityOneScenario ==
    [][\A c \in courses : c.max_students = 1 =>
          /\ (last'.op = "request_enrollment" /\ last'.outcome = "ok") =>
                \E e \in enrollments' \ enrollments :
                   /\ enrollments' = enrollments \cup {e}
                   /\ e.student_id = last'.user
                   /\ e.status = "pending"
          /\ (/\ last'.op = "approve_enrollment" /\ last'.outcome = "ok"
              /\ last'.user = c.teacher_id
              /\ UNCHANGED courses
              /\ enrolled_count(c.id) = 0
              /\ \E e \in enrollments \ enrollments' : e.course_id = c.id) =>
                /\ \E e \in enrollments' \ enrollments : e.status = "approved"
                /\ Cardinality({e \in enrollments' :
                                   e.course_id = c.id /\ e.status = "approved"}) = 1
                /\ is_full(c)'
          /\ \A b \in Students :
                (/\ has_paid[b]
                 /\ enrolled_count(c.id) = 1
                 /\ ~\E e \in enrollments : e.student_id = b /\ e.course_id = c.id
                 /\ RequestEnrollmentCheck(b, c.id)) =>
                   /\ last'.outcome = "full"
                   /\ UNCHANGED <<enrollments, enroll_req>>
      ]_vars

\* student B was turned away as full: the course of capacity 1 has one
\* approved student, B has paid and has no row
C7_Witness ==
    /\ last.op = "request_enrollment"
    /\ last.outcome = "full"
    /\ has_paid[last.user]
    /\ \E c \in courses :
          /\ c.max_students = 1
          /\ \E e \in enrollments :
                e.course_id = c.id /\ e.status = "approved" /\ e.student_id # last.user
          /\ ~\E e \in enrollments : e.student_id = last.user
          /\ enroll_req = {}

\* C18: a request_enrollment of a student who has a row for that course, in
\* any status, is turned away as existing and changes no table and no request
\* under way; every request_enrollment turned away as unpaid, existing or
\* full changes nothing.
C18_RejectedRequestChangesNothing ==
    [][last'.op = "request_enrollment" =>
          /\ last'.outcome \in {"unpaid", "existing", "full"} =>
                UNCHANGED <<has_paid, courses, enrollVars, curriculumVars, quizVars,
                            essayVars, forumVars>>
          /\ \A e \in enrollments :
                RequestEnrollmentCheck(e.student_id, e.course_id) =>
                   /\ last'.outcome = "existing"
                   /\ UNCHANGED <<enrollments, enroll_req>>
      ]_vars

\* a student whose request was declined asked again and was turned away
C18_Witness ==
    /\ last.op = "request_enrollment"
    /\ last.outcome = "existing"
    /\ \E e \in enrollments :
          e.student_id = last.user /\ e.status = "declined" /\ e.responded_at # NullTime
    /\ Cardinality({e \in enrollments : e.student_id = last.user}) = 1

\* C19: no step sets the status of an enrollment that is approved or declined
\* back to pending.
C19_NeverBackToPending ==
    [][\A e \in enrollments, e2 \in enrollments' :
          (SameRow(e, e2) /\ e.status # "pending") => e2.status # "pending"
      ]_vars

\* every request of the course has been answered, one approved, one declined,
\* the last of them on a decline route
C19_Witness ==
    /\ last.op = "decline_enrollment"
    /\ last.outcome = "ok"
    /\ \A e \in enrollments : e.status # "pending"
    /\ \E e1, e2 \in enrollments : e1.status = "approved" /\ e2.status = "declined"

-----------------------------------------------------------------------------
(* Properties of quizzes *)

AnswersOf(sub) == {a \in quiz_answers : a.submission_id = sub.id}
QuestionsOf(qid) == {q \in quiz_questions : q.quiz_id = qid}

\* the points of question q under the answer rows ans: q.points when the
\* stored (upper-cased) option of its answer is q.correct_option, else 0
Credit(q, ans) ==
    IF \E a \in ans : a.question_id = q.id /\ a.selected_option = q.correct_option
    THEN q.points ELSE 0

\* C4: every submission's total_score is the sum of points_earned over its
\* answer rows, and the sum over all questions of its quiz of the question's
\* points when the option sent, upper-cased, is the stored correct_option and 0
\* otherwise (0 too for a question left unanswered).
C4_TotalScore ==
    \A sub \in quiz_submissions :
        LET ans == AnswersOf(sub)
            qs == QuestionsOf(sub.quiz_id)
        IN /\ sub.total_score =
                SumOf([i \in {a.id : a \in ans} |->
                         (CHOOSE a \in ans : a.id = i).points_earned],
                      {a.id : a \in ans})
           /\ sub.total_score =
                SumOf([i \in {q.id : q \in qs} |->
                         Credit(CHOOSE q \in qs : q.id = i, ans)],
                      {q.id : q \in qs})

\* a submission to a two-question quiz: one answer right (sent in lower
\* case), the other question left unanswered
C4_Witness ==
    \E sub \in quiz_submissions :
        /\ Cardinality(QuestionsOf(sub.quiz_id)) = 2
        /\ Cardinality(AnswersOf(sub)) = 1
        /\ sub.total_score = 5

\* C5: with take_quiz requests served one at a time, a student has at most
\* one submission per quiz; a further attempt is turned away, adds no
\* submission or answer row, and no step changes a row already stored.
C5_OneSubmission ==
    /\ [](\A s1, s2 \in quiz_submissions :
            (s1.student_id = s2.student_id /\ s1.quiz_id = s2.quiz_id) => s1 = s2)
    /\ [][/\ quiz_submissions \subseteq quiz_submissions'
          /\ quiz_answers \subseteq quiz_answers'
          /\ last'.op = "take_quiz" =>
                \A sub \in quiz_submissions, m \in {"GET", "POST"} :
                   TakeQuizCheck(sub.student_id, sub.quiz_id, m) =>
                      /\ UNCHANGED <<quiz_submissions, quiz_answers, quiz_req>>
                      /\ last'.outcome \in {"already_submitted", "not_enrolled"}
         ]_vars

\* a student who has submitted was just turned away from a second attempt
C5_Witness ==
    /\ last.op = "take_quiz"
    /\ last.outcome = "already_submitted"
    /\ \E sub \in quiz_submissions : sub.student_id = last.user

-----------------------------------------------------------------------------
(* Properties of course deletion *)

\* C6: a delete_course that succeeds removes the course and, of every table,
\* exactly the rows that belonged to it directly or through their parents;
\* the rows of other courses stay as they were.
C6_DeleteCourseCascades ==
    [][(last'.op = "delete_course" /\ last'.outcome = "ok") =>
          \E c \in courses :
             /\ courses' = courses \ {c}
             /\ enrollments' = {r \in enrollments : r.course_id # c.id}
             /\ modules' = {r \in modules : r.course_id # c.id}
             /\ topics' = {r \in topics : CourseOfModule(r.module_id) # c.id}
             /\ lessons' = {r \in lessons : CourseOfTopic(r.topic_id) # c.id}
             /\ quizzes' = {r \in quizzes : r.course_id # c.id}
             /\ quiz_questions' = {r \in quiz_questions : CourseOfQuiz(r.quiz_id) # c.id}
             /\ quiz_submissions' =
                   {r \in quiz_submissions : CourseOfQuiz(r.quiz_id) # c.id}
             /\ quiz_answers' =
                   {r \in quiz_answers : CourseOfSubmission(r.submission_id) # c.id}
             /\ essays' = {r \in essays : r.course_id # c.id}
             /\ essay_submissions' =
                   {r \in essay_submissions : CourseOfEssay(r.essay_id) # c.id}
             /\ live_classes' = {r \in live_classes : r.course_id # c.id}
             /\ discussions' = {r \in discussions : r.course_id # c.id}
             /\ replies' = {r \in replies : CourseOfDiscussion(r.discussion_id) # c.id}
      ]_vars

\* a course with a module was deleted (module 1 is gone, ids grow by one)
\* and the other course kept its module and its enrollment
C6_Witness ==
    /\ last.op = "delete_course"
    /\ last.outcome = "ok"
    /\ Cardinality(courses) = 1
    /\ \E c \in courses :
          /\ modules = {[id |-> 2, course_id |-> c.id, title |-> "created"]}
          /\ \E e \in enrollments : e.course_id = c.id
          /\ \A e \in enrollments : e.course_id = c.id

-----------------------------------------------------------------------------
(* Properties of the access predicate *)

\* C11: can_access_course(user, course) is true for a teacher exactly when
\* the course exists and its teacher_id is the user, true for a student
\* exactly when the student has an approved enrollment row for the course,
\* and false for every other user, admins included.
C11_CanAccessCourse ==
    \A u \in Users : \A cid \in Ids(courses) :
        LET owned == {c \in courses : c.id = cid /\ c.teacher_id = u}
            approved == {e \in enrollments :
                           <<e.student_id, e.course_id, e.status>> = <<u, cid, "approved">>}
        IN can_access_course(u, cid) <=>
              CASE user_type(u) = "teacher" -> owned # {}
                [] user_type(u) = "student" -> approved # {}
                [] OTHER -> FALSE

\* a course of teacher t1 with one student approved and the other declined:
\* the predicate is true for t1 and the approved student only
C11_Witness ==
    \E c \in courses :
        /\ c.teacher_id = "t1"
        /\ \E e1, e2 \in enrollments :
              /\ e1.course_id = c.id /\ e1.status = "approved"
              /\ e2.course_id = c.id /\ e2.status = "declined"
              /\ can_access_course(e1.student_id, c.id)
              /\ ~can_access_course(e2.student_id, c.id)
        /\ can_access_course("t1", c.id)
        /\ ~can_access_course("t2", c.id)
        /\ ~can_access_course("a1", c.id)

-----------------------------------------------------------------------------
(* Properties of essays *)

\* C12: a submit_essay POST with empty text and no accepted file (none sent,
\* an extension that is not allowed, or an essay that takes no uploads) is
\* turned away and leaves the essay submissions as they were.
C12_EmptySubmissionRejected ==
    [][last'.op = "submit_essay" =>
          \/ /\ UNCHANGED essay_submissions
             /\ last'.outcome # "ok"
          \/ \A e \in essays, file \in Files, now \in Times :
                ~(/\ \/ ~e.allows_file_upload
                     \/ Len(file) < 2
                     \/ Lower(file[Len(file)]) \notin ALLOWED_EXTENSIONS
                  /\ SubmitEssay(last'.user, e.id, "POST", "", file, now))
      ]_vars

\* an enrolled student without a submission sent nothing acceptable and was
\* turned away
C12_Witness ==
    /\ last.op = "submit_essay"
    /\ last.outcome = "invalid"
    /\ essays # {}
    /\ \E e \in enrollments : e.student_id = last.user /\ e.status = "approved"
    /\ ~\E sub \in essay_submissions : sub.student_id = last.user

\* C14: score, feedback, graded and graded_at of a submission change only on
\* a grade_essay_submission request of the teacher whose id is the teacher_id
\* of the essay's course; such a request with any other outcome (another
\* teacher, another role) leaves every submission unchanged, and no step
\* changes a submission's other fields.
C14_OnlyOwnerGrades ==
    [][/\ \A sub \in essay_submissions, sub2 \in essay_submissions' :
            (SameRow(sub, sub2) /\ sub # sub2) =>
               /\ last'.op = "grade_essay_submission"
               /\ is_teacher(last'.user)
               /\ \E e \in essays, c \in courses :
                     e.id = sub.essay_id /\ c.id = e.course_id
                        /\ c.teacher_id = last'.user
               /\ sub2 = [sub EXCEPT !.score = sub2.score, !.feedback = sub2.feedback,
                                     !.graded = sub2.graded,
                                     !.graded_at = sub2.graded_at]
       /\ (last'.op = "grade_essay_submission" /\ last'.outcome # "ok")
             => UNCHANGED essay_submissions
      ]_vars

\* a teacher who does not own the course was turned away from a submission
C14_Witness ==
    /\ last.op = "grade_essay_submission"
    /\ last.outcome = "not_owner"
    /\ is_teacher(last.user)
    /\ \E sub \in essay_submissions : ~sub.graded

\* C15: once a grading action has set graded, no later grade_essay_submission
\* changes the submission's score or feedback.
C15_Original ==
    [][\A sub \in essay_submissions, sub2 \in essay_submissions' :
          (SameRow(sub, sub2) /\ sub.graded) =>
             sub2.score = sub.score /\ sub2.feedback = sub.feedback
      ]_vars

\* C16: with submit_essay requests served one at a time, a student has at
\* most one submission per essay; a further submit_essay of that student for
\* that essay is turned away, adds no row and leaves the stored rows as they were.
C16_OneEssaySubmission ==
    /\ [](\A s1, s2 \in essay_submissions :
            (s1.student_id = s2.student_id /\ s1.essay_id = s2.essay_id) => s1 = s2)
    /\ [][/\ \A new \in essay_submissions' :
               (\A sub \in essay_submissions : ~SameRow(sub, new)) =>
                  ~\E sub \in essay_submissions :
                       sub.student_id = new.student_id /\ sub.essay_id = new.essay_id
          /\ last'.op = "submit_essay" =>
                /\ essay_submissions \subseteq essay_submissions'
                /\ \A sub \in essay_submissions, now \in Times :
                      SubmitEssay(sub.student_id, sub.essay_id, "POST", "text", <<>>, now)
                         => /\ UNCHANGED essay_submissions
                            /\ last'.outcome = "already_submitted"
         ]_vars

\* a student who has submitted was just turned away from a second submission
C16_Witness ==
    /\ last.op = "submit_essay"
    /\ last.outcome = "already_submitted"
    /\ \E sub \in essay_submissions : sub.student_id = last.user

-----------------------------------------------------------------------------
(* Properties of live classes *)

\* C13: with start_live_class and end_live_class served one at a time, every
\* course has at most one live class with is_active true, in every state.
C13_OneActiveClass ==
    \A c \in courses :
        Cardinality({lc \in live_classes : lc.course_id = c.id /\ lc.is_active}) <= 1

\* a course with an ended class and a running one: a further start was
\* turned away
C13_Witness ==
    /\ last.op = "start_live_class"
    /\ last.outcome = "already_active"
    /\ \E l1, l2 \in live_classes :
          /\ l1.course_id = l2.course_id
          /\ ~l1.is_active /\ l1.ended_at # NullTime
          /\ l2.is_active

-----------------------------------------------------------------------------
(* Properties of the grade percentage *)

\* C17: the percentage take_quiz reports for the submission it stored is 0
\* when the quiz's total_points is 0 and otherwise score / total_points * 100
\* rounded to two decimals (in hundredths: the integer nearest to
\* score * 10000 / total_points); for the quiz with questions (A, 5 points)
\* and (C, 10 points) answered A and B, total_score is 5 and the percentage 33.33.
C17_Percentage ==
    (last.op = "take_quiz" /\ last.outcome = "ok") =>
       \E sub \in quiz_submissions :
          /\ sub.student_id = last.user
          /\ \A other \in quiz_submissions : other.id <= sub.id
          /\ LET max_score == Get(quizzes, sub.quiz_id).total_points
                 off == last.percentage * max_score - sub.total_score * 10000
                 qs == QuestionsOf(sub.quiz_id)
                 ans == AnswersOf(sub)
             IN /\ max_score = 0 => last.percentage = 0
                /\ max_score # 0 =>
                      2 * (IF off < 0 THEN 0 - off ELSE off) <= max_score
                /\ (/\ Cardinality(qs) = 2
                    /\ \E q1, q2 \in qs, a1, a2 \in ans :
                          /\ <<q1.correct_option, q1.points>> = <<"A", 5>>
                          /\ <<q2.correct_option, q2.points>> = <<"C", 10>>
                          /\ <<a1.question_id, a1.selected_option>> = <<q1.id, "A">>
                          /\ <<a2.question_id, a2.selected_option>> = <<q2.id, "B">>)
                      => sub.total_score = 5 /\ last.percentage = 3333

\* the scenario: questions (A, 5) and (C, 10), answers A and B, just submitted
C17_Witness ==
    /\ last.op = "take_quiz"
    /\ last.outcome = "ok"
    /\ last.percentage = 3333
    /\ \E sub \in quiz_submissions :
          /\ sub.total_score = 5
          /\ Get(quizzes, sub.quiz_id).total_points = 15
          /\ \E a1, a2 \in AnswersOf(sub) :
                a1.selected_option = "A" /\ a2.selected_option = "B"

-----------------------------------------------------------------------------
(* Properties of quiz access *)

-----------------------------------------------------------------------------
(* Properties of concurrent quiz submissions *)

\* C21: when take_quiz POSTs of one student for one quiz have all run the
\* existing-submission lookup before any of them commits, every one of the
\* commits succeeds and adds its own QuizSubmission row, also when a row of
\* that (student, quiz) pair is already stored: no constraint refuses it.
C21_BothCommitsSucceed ==
    [][\A r \in quiz_req :
          \A form \in [{q.id : q \in r.questions} -> AnswerOptions], now \in Times :
             TakeQuizCommit(r, form, now, FALSE, Cardinality(r.questions)) =>
                /\ last'.outcome = "ok"
                /\ \E new \in quiz_submissions' \ quiz_submissions :
                      /\ new.student_id = r.student_id
                      /\ new.quiz_id = r.quiz_id
                      /\ quiz_submissions' = quiz_submissions \cup {new}]_vars

\* two rows of one student for one quiz are stored
C21_Witness ==
    \E a, b \in quiz_submissions :
       /\ a.id # b.id
       /\ a.student_id = b.student_id
       /\ a.quiz_id = b.quiz_id

\* C22: a take_quiz that fails after the submission has been flushed and
\* before the commit is rolled back, so neither the submission nor any answer
\* of it is stored; a stored submission is graded, carries its graded_at and
\* has an answer row for every question the student answered, and no answer
\* row is without its submission.
C22_FailedQuizLeavesNothing ==
    [][/\ (last'.op = "take_quiz" /\ last'.outcome = "error")
             => UNCHANGED <<quiz_submissions, quiz_answers>>
       /\ \A sub \in quiz_submissions' :
             sub.graded /\ sub.graded_at # NullTime
       /\ \A a \in quiz_answers' :
             \E sub \in quiz_submissions' : sub.id = a.submission_id
       /\ \A r \in quiz_req :
             \A form \in [{q.id : q \in r.questions} -> AnswerOptions], now \in Times :
                TakeQuizCommit(r, form, now, FALSE, Cardinality(r.questions)) =>
                   \E sub \in quiz_submissions' \ quiz_submissions :
                      {a.question_id : a \in {b \in quiz_answers' :
                                                b.submission_id = sub.id}}
                         = {q.id : q \in Answered(r.questions, form)}]_vars

\* a take_quiz of a quiz with questions has just failed and been rolled back
C22_Witness ==
    /\ last.op = "take_quiz"
    /\ last.outcome = "error"
    /\ quiz_questions # {}
    /\ quiz_req = {}

\* C23: from the moment create_quiz has succeeded, the quiz's stored
\* total_points is the sum of the points of exactly the stored QuizQuestion
\* rows of that quiz (the incomplete questions of the form are not stored and
\* not counted), in that state and in every later one.
C23_TotalPoints ==
    \A quiz \in quizzes :
       LET qs == QuestionsOf(quiz.id)
           pts == [i \in {q.id : q \in qs} |-> (CHOOSE q \in qs : q.id = i).points]
       IN quiz.total_points = SumOf(pts, DOMAIN pts)

\* a later state of a quiz with one stored question: a student has taken it
C23_Witness ==
    /\ \E quiz \in quizzes :
          /\ Cardinality(QuestionsOf(quiz.id)) = 1
          /\ quiz.total_points > 0
          /\ \E sub \in quiz_submissions : sub.quiz_id = quiz.id
    /\ last.op = "take_quiz"

-----------------------------------------------------------------------------
(* Properties of the teacher routes *)

\* the step is a POST of teacher u to a course-scoped teacher route whose
\* target belongs to a course of another teacher_id
ByNonOwner(u) ==
    \/ /\ last'.op = "create_module"
       /\ \E cid \in Rows(courses) :
             Owner(cid) # u /\ CreateModule(u, cid, "POST", TRUE)
    \/ /\ last'.op = "edit_module"
       /\ \E mid \in Rows(modules) :
             Owner(CourseOfModule(mid)) # u /\ EditModule(u, mid, "POST", TRUE)
    \/ /\ last'.op = "delete_module"
       /\ \E mid \in Rows(modules) :
             Owner(CourseOfModule(mid)) # u /\ DeleteModule(u, mid)
    \/ /\ last'.op = "create_topic"
       /\ \E mid \in Rows(modules) :
             Owner(CourseOfModule(mid)) # u /\ CreateTopic(u, mid, "POST", TRUE)
    \/ /\ last'.op = "edit_topic"
       /\ \E tid \in Rows(topics) :
             Owner(CourseOfTopic(tid)) # u /\ EditTopic(u, tid, "POST", TRUE)
    \/ /\ last'.op = "delete_topic"
       /\ \E tid \in Rows(topics) :
             Owner(CourseOfTopic(tid)) # u /\ DeleteTopic(u, tid)
    \/ /\ last'.op = "create_lesson"
       /\ \E tid \in Rows(topics) :
             Owner(CourseOfTopic(tid)) # u /\ CreateLesson(u, tid, "POST", TRUE)
    \/ /\ last'.op = "edit_lesson"
       /\ \E lid \in Rows(lessons) :
             /\ Owner(CourseOfTopic(Get(lessons, lid).topic_id)) # u
             /\ EditLesson(u, lid, "POST", TRUE)
    \/ /\ last'.op = "delete_lesson"
       /\ \E lid \in Rows(lessons) :
             /\ Owner(CourseOfTopic(Get(lessons, lid).topic_id)) # u
             /\ DeleteLesson(u, lid)
    \/ /\ last'.op = "create_quiz"
       /\ \E cid \in Rows(courses) :
             Owner(cid) # u /\ CreateQuiz(u, cid, "POST", TRUE, OneQuestion)
    \/ /\ last'.op = "create_essay"
       /\ \E cid \in Rows(courses) :
             Owner(cid) # u /\ CreateEssay(u, cid, "POST", TRUE, TRUE, 10)
    \/ /\ last'.op = "grade_essay_submission"
       /\ \E sid \in Rows(essay_submissions) :
             /\ Owner(CourseOfEssay(Get(essay_submissions, sid).essay_id)) # u
             /\ GradeEssaySubmission(u, sid, "POST", "7", "good", 1)
    \/ /\ last'.op = "start_live_class"
       /\ \E cid \in Rows(courses) :
             Owner(cid) # u /\ StartLiveClass(u, cid, "POST", TRUE, 1)
    \/ /\ last'.op = "end_live_class"
       /\ \E lid \in Rows(live_classes) :
             Owner(Get(live_classes, lid).course_id) # u /\ EndLiveClass(u, lid, 1)
    \/ /\ last'.op = "teacher_create_notification"
       /\ \E cid \in Rows(courses) :
             Owner(cid) # u /\ TeacherCreateNotification(u, cid, "POST", TRUE)

\* C24: on every course-scoped teacher route (modules, topics, lessons,
\* quizzes, essays, grading, live classes, notifications) a request of a teacher whose id is not the teacher_id of the
\* target's course ends in the authorization failure and changes nothing
\* that is stored.
C24_NonOwnerChangesNothing ==
    [][\A u \in Teachers :
          (last'.user = u /\ ByNonOwner(u)) =>
             last'.outcome = "not_owner" /\ UNCHANGED stored]_vars

\* teacher t2 has just been refused the deletion of a lesson of t1's course
C24_Witness ==
    /\ last = [op |-> "delete_lesson", user |-> "t2", outcome |-> "not_owner"]
    /\ \E l \in lessons : Owner(CourseOfTopic(l.topic_id)) = "t1"

-----------------------------------------------------------------------------
(* Properties of notifications *)

\* C25: a teacher_create_notification that succeeds adds exactly one
\* Notification row for each student whose enrollment in that course is
\* approved at that moment, and none for a student whose enrollment is
\* pending or declined or who has no enrollment in the course; the rows
\* stored before stay.
C25_OnePerApprovedStudent ==
    [][(last'.op = "teacher_create_notification" /\ last'.outcome = "ok") =>
          \A cid \in Rows(courses) :
             TeacherCreateNotification(last'.user, cid, "POST", TRUE) =>
                /\ notifications \subseteq notifications'
                /\ \A s \in Students :
                      Cardinality({n \in notifications' \ notifications :
                                     n.recipient_id = s})
                         = IF \E e \in enrollments :
                                 /\ e.student_id = s
                                 /\ e.course_id = cid
                                 /\ e.status = "approved"
                           THEN 1 ELSE 0
                /\ \A n \in notifications' \ notifications :
                      n.recipient_id \in Students]_vars

\* t1 has just notified course 1, where s1 is approved and s2 is not: s1 has
\* a notification, s2 has none
C25_Witness ==
    /\ last = [op |-> "teacher_create_notification", user |-> "t1", outcome |-> "ok"]
    /\ \E e \in enrollments :
          e.course_id = 1 /\ e.student_id = "s1" /\ e.status = "approved"
    /\ \E e \in enrollments :
          e.course_id = 1 /\ e.student_id = "s2" /\ e.status # "approved"
    /\ \E n \in notifications : n.recipient_id = "s1"
    /\ \A n \in notifications : n.recipient_id # "s2"

\* C26: mark_notification_read sets read_at only on a notification whose
\* recipient_id is the authenticated student's id, and changes nothing else
\* of it; a request for a notification of another user leaves that
\* notification and every other one unchanged.
C26_OnlyOwnNotification ==
    [][last'.op = "mark_notification_read" =>
          /\ \A n \in notifications :
                n \notin notifications' =>
                   /\ n.recipient_id = last'.user
                   /\ \E m \in notifications' :
                         /\ m = [n EXCEPT !.read_at = m.read_at]
                         /\ m.read_at # NullTime
          /\ Cardinality(notifications') = Cardinality(notifications)
          /\ \A nid \in Rows(notifications), now \in Times :
                (/\ Get(notifications, nid).recipient_id # last'.user
                 /\ MarkNotificationRead(last'.user, nid, now))
                   => UNCHANGED notifications]_vars

\* s2 has just asked to mark an unread notification of s1 as read
C26_Witness ==
    /\ last = [op |-> "mark_notification_read", user |-> "s2",
               outcome |-> "not_recipient"]
    /\ \E n \in notifications : n.recipient_id = "s1" /\ n.read_at = NullTime
    /\ \A n \in notifications : n.recipient_id = "s1"

-----------------------------------------------------------------------------
(* Properties of viewing and posting *)

\* user u is an admin, the teacher of course cid, or a student whose
\* enrollment in course cid is approved
MayUseCourse(u, cid) ==
    \/ u \in Admins
    \/ u \in Teachers /\ \E c \in courses : c.id = cid /\ c.teacher_id = u
    \/ /\ u \in Students
       /\ \E e \in enrollments :
             e.student_id = u /\ e.course_id = cid /\ e.status = "approved"

\* C27: course_detail shows a course only to an admin, to the teacher whose
\* id is the course's teacher_id, or to a student with an approved enrollment
\* in the course; every other teacher or student is redirected.
C27_Original ==
    [][last'.op = "course_detail" =>
          \A cid \in Rows(courses) :
             CourseDetail(last'.user, cid) =>
                (last'.outcome = "shown" <=> MayUseCourse(last'.user, cid))]_vars

\* C28: a Discussion or Reply row is created in a course only by a student
\* with an approved enrollment in that course, by the teacher who owns the
\* course, or by an admin; a teacher who does not own the course creates no
\* discussion, pinned or not, and no reply in it.
C28_Original ==
    [][/\ \A d \in discussions' \ discussions : MayUseCourse(d.author_id, d.course_id)
       /\ \A r \in replies' \ replies :
             MayUseCourse(r.author_id, CourseOfDiscussion(r.discussion_id))]_vars

-----------------------------------------------------------------------------
(* Properties of quiz points *)

\* C29: for every QuizSubmission, 0 <= total_score <= the stored
\* total_points of its quiz, whatever point values create_quiz accepted for
\* the questions and whatever options were submitted.
C29_Original ==
    \A sub \in quiz_submissions :
       /\ 0 <= sub.total_score
       /\ sub.total_score <= Get(quizzes, sub.quiz_id).total_points

-----------------------------------------------------------------------------
(* Properties of the library *)

\* C30: delete_library_resource keeps the stored file and the
\* LibraryResource row consistent: after a request for a resource whose file
\* is stored, either both the file and the row are gone or both remain, also
\* when the commit fails after the file has been removed.
C30_Original ==
    [][last'.op = "delete_library_resource" =>
          \A r \in library_resources :
             r.file_name \in library_files =>
                (r \in library_resources' <=> r.file_name \in library_files')]_vars

====
